---- MODULE Spec2Model ----
(***************************************************************************)
(* Slack-Pack: the driver (DetailPlacer.run_algorithm), the detail         *)
(* generators, the placement engine (SlackPackAlgorithm) over the          *)
(* in-memory box storage, and the cached external storage                  *)
(* (HybridBoxStorage) exercised on its own by add / get / pop calls.       *)
(*                                                                         *)
(* Lengths are fixed-point numbers: the length 1 of the source is Unit     *)
(* grid steps, 1 / n is Unit \div n and pow rounds its result to the grid. *)
(* A rectangle name f'{prefix}{index}' is the pair <<prefix, index>>.      *)
(***************************************************************************)
EXTENDS Integers, Sequences, FiniteSets, TLC

\* ------------------------------------------------------------------ bounds
MaxN0 == 3
MaxPlaced == 4
MaxGamma == 2
MaxSheet == 4
MaxCacheSize == 2
NumBoxes == 4
MaxCalls == 6
MaxListeners == 2
MaxBoxesInPartition == 3
\* the grid: the least common multiple of the denominators 1..10
Unit == 8 * 9 * 5 * 7

VARIABLES
    \* configuration of the run (main.py)
    gamma, n0, max_placed, update_placed_details, base_detail,
    \* the registered statistic listeners, each by the event type it declares
    statistic_listeners,
    \* detail generator
    generator, is_width_smaller, denominator,
    \* DetailPlacer.run_algorithm; last_ok_placed is the list as the last
    \* successful place_next left it, at_entry the engine's lrp,
    \* last_placed_index and number of events emitted when place_next was last
    \* entered
    pc, num_placed, placed_details, detail, error, last_ok_placed, at_entry,
    \* SlackPackAlgorithm
    lrp, active_box, active_box_first_detail_index, is_active_box_horizontal,
    last_placed_index, endpoints_placed, active_box_from,
    \* the events emitted, and their deliveries to listeners, in order
    events, delivered,
    \* InMemoryBoxStorage
    boxes,
    \* HybridBoxStorage: its three caches, the boxes table and its id sequence
    cache_size, to_add_cache, max_cache, to_delete_cache, table, next_id,
    \* the caller of the storage: the value last returned, the rectangles
    \* added and not popped since, the number of calls made
    ret, present, calls,
    \* a second engine with its own placements list and storage, fed the same
    \* sizes as the first
    twin,
    \* HybridPartitionedBoxStorage: the size of a partition and the ranges of
    \* the partitions
    boxes_in_partition, partition_ranges

configVars == <<gamma, n0, max_placed, update_placed_details, base_detail,
                generator, is_width_smaller, statistic_listeners>>
driverVars == <<pc, num_placed, placed_details, detail, error, last_ok_placed, at_entry,
                denominator>>
\* the driver's variables a storage call made on its own leaves alone: error
\* holds the exception the last call raised
callerVars == <<pc, num_placed, placed_details, detail, last_ok_placed, at_entry,
                denominator>>
engineVars == <<lrp, active_box, active_box_first_detail_index,
                is_active_box_horizontal, last_placed_index, endpoints_placed,
                active_box_from, events, delivered>>
hybridVars == <<cache_size, to_add_cache, max_cache, to_delete_cache, table,
                next_id, ret, present, calls>>
partitionVars == <<boxes_in_partition, partition_ranges>>
vars == <<configVars, driverVars, engineVars, boxes, hybridVars, twin,
          partitionVars>>

\* ---------------------------------------------------------------- Detail
Detail(bottom_left, top_right, name, detail_type) ==
    [bottom_left |-> bottom_left, top_right |-> top_right,
     name |-> name, detail_type |-> detail_type]

\* Python's None, for a Detail-valued field
None == Detail(<<0, 0>>, <<0, 0>>, <<"None", 0>>, "None")
NoError == "None"

width(d) == d.top_right[1] - d.bottom_left[1]
height(d) == d.top_right[2] - d.bottom_left[2]

Min(a, b) == IF a <= b THEN a ELSE b
Max(a, b) == IF a >= b THEN a ELSE b
min_size(d) == Min(width(d), height(d))

DETAIL_PREFIX == "D"
DETAIL_NAME == "detail"
NORMAL_BOX_PREFIX == "B"
NORMAL_BOX_TYPE_1_NAME == "normal_box_1"
NORMAL_BOX_TYPE_2_NAME == "normal_box_2"
ENDPOINT_PREFIX == "E"
ENDPOINT_TYPE_1_NAME == "endpoint_1"
ENDPOINT_TYPE_2_NAME == "endpoint_2"
LRP_PREFIX == "LRP"
LRP_NAME == "lrp"

\* mutant: the name built from the index before its increment
fname_before_increment(prefix, index) == <<prefix, index - 1>>

\* f'{prefix}{index}'; the bare prefix 'LRP' carries no index
fname(prefix, index) == <<prefix, index>>
bare_name(prefix) == <<prefix, -1>>

\* ------------------------------------------------------------ arithmetic
\* 1 / n
inverse(n) == Unit \div n

\* pow(x, g) for a whole exponent g >= 0
RECURSIVE pow(_, _)
pow(x, g) ==
    IF g = 0 THEN Unit
    ELSE IF g = 1 THEN x ELSE (x * pow(x, g - 1)) \div Unit

\* pow(1 / k, gamma)
required_gap_of(k) == pow(inverse(k), gamma)

\* ------------------------------------------------------------ generators
HarmonicSquare_next(d) == <<inverse(d), inverse(d)>>

\* mutant: the two components of the rectangle exchanged
HarmonicRectangle_next_swapped(d, smaller) ==
    IF smaller THEN <<inverse(d), inverse(d + 1)>>
               ELSE <<inverse(d + 1), inverse(d)>>

HarmonicRectangle_next(d, smaller) ==
    IF smaller THEN <<inverse(d + 1), inverse(d)>>
               ELSE <<inverse(d), inverse(d + 1)>>

generator_next ==
    IF generator = "square" THEN HarmonicSquare_next(denominator)
    ELSE HarmonicRectangle_next(denominator, is_width_smaller)

\* ------------------------------------------------------ sorted containers
Range(s) == {s[i] : i \in 1..Len(s)}

\* a comparator with the sign reversed: the smallest rectangle sorts first
detail_comparator_reversed(detail1, detail2) == min_size(detail1) - min_size(detail2)

\* min(detail2) - min(detail1): negative when detail1 is the larger one
detail_comparator(detail1, detail2) == min_size(detail2) - min_size(detail1)

\* SortedSet.add under the comparator key: an equal element is not added twice,
\* a new one goes after every element that does not compare greater than it
sorted_add(s, d) ==
    IF d \in Range(s) THEN s
    ELSE LET pos == Cardinality({i \in 1..Len(s) : detail_comparator(s[i], d) <= 0})
         IN  SubSeq(s, 1, pos) \o <<d>> \o SubSeq(s, pos + 1, Len(s))

\* list.remove(x): the first element equal to x is taken out
list_remove(s, x) ==
    LET i == CHOOSE j \in 1..Len(s) :
                 s[j] = x /\ \A k \in 1..(j - 1) : s[k] # x
    IN  SubSeq(s, 1, i - 1) \o SubSeq(s, i + 1, Len(s))

\* --------------------------------------------------- InMemoryBoxStorage
InMemory_add_box(bs, d) == sorted_add(bs, d)
\* mutant: the last rectangle of the sorted set is returned, the smallest
InMemory_get_max_box_last(bs) == IF Len(bs) > 0 THEN bs[Len(bs)] ELSE None

InMemory_get_max_box(bs) == IF Len(bs) > 0 THEN bs[1] ELSE None
InMemory_pop_max_box(bs) == IF Len(bs) > 0 THEN Tail(bs) ELSE bs

\* ----------------------------------------------------- HybridBoxStorage
\* math.inf
INF == 1000 * Unit

\* the sorted set's first element, None when it is empty
first_of(s) == IF Len(s) > 0 THEN s[1] ELSE None

Hybrid_detail_comparator(detail1, detail2) ==
    IF detail1 = None /\ detail2 = None THEN 0
    ELSE IF detail1 = None THEN INF
    ELSE IF detail2 = None THEN -INF
    ELSE Min(width(detail2), height(detail2)) - Min(width(detail1), height(detail1))

\* the row _update_to_add_cache inserts for a box
Row(id, d) ==
    [id |-> id,
     bottom_left_x |-> d.bottom_left[1], bottom_left_y |-> d.bottom_left[2],
     top_right_x |-> d.top_right[1], top_right_y |-> d.top_right[2],
     min_size |-> Min(width(d), height(d)),
     name |-> d.name, detail_type |-> d.detail_type]

row_to_detail(row) ==
    Detail(<<row.bottom_left_x, row.bottom_left_y>>,
           <<row.top_right_x, row.top_right_y>>, row.name, row.detail_type)

Hybrid_get_max_box(ta, mc) ==
    LET max_from_to_add_cache == first_of(ta)
        max_from_max_cache == first_of(mc)
    IN  IF Hybrid_detail_comparator(max_from_to_add_cache, max_from_max_cache) >= 0
        THEN max_from_max_cache
        ELSE max_from_to_add_cache

\* pop_max_box takes from max_cache (and not from to_add_cache)
pop_from_max_cache(ta, mc) ==
    Hybrid_detail_comparator(first_of(ta), first_of(mc)) >= 0

\* mutant: only the first box of to_add_cache becomes a row
update_to_add_cache_first_only(tbl, id, ta) ==
    tbl \o [i \in 1..Min(1, Len(ta)) |-> Row(id + i - 1, ta[i])]

\* _update_to_add_cache: every box of to_add_cache becomes a new row
update_to_add_cache(tbl, id, ta) ==
    tbl \o [i \in 1..Len(ta) |-> Row(id + i - 1, ta[i])]

\* _update_to_delete_cache: the rows named like a box of to_delete_cache go
update_to_delete_cache(tbl, td) ==
    LET detail_names == {td[i].name : i \in 1..Len(td)}
        kept(row) == row.name \notin detail_names
    IN  SelectSeq(tbl, kept)

\* the answers the database may give to
\* SELECT ... ORDER BY min_size DESC LIMIT limit: rows of equal min_size come
\* in any order
select_max_rows(tbl, limit) ==
    LET n == Min(limit, Len(tbl))
        picks == {r \in [1..n -> 1..Len(tbl)] :
                     /\ \A i, j \in 1..n : i < j =>
                            /\ r[i] # r[j]
                            /\ tbl[r[i]].min_size >= tbl[r[j]].min_size
                     /\ \A k \in 1..Len(tbl) :
                            (\A i \in 1..n : r[i] # k) =>
                                \A i \in 1..n : tbl[r[i]].min_size >= tbl[k].min_size}
    IN  {[i \in 1..n |-> tbl[r[i]]] : r \in picks}

\* _update_max_cache: a fresh sorted set filled from the selected rows
RECURSIVE update_max_cache(_, _)
update_max_cache(mc, rows) ==
    IF rows = <<>> THEN mc
    ELSE update_max_cache(sorted_add(mc, row_to_detail(Head(rows))), Tail(rows))

\* mutant: max_cache is not replaced by a fresh set before it is filled
update_caches_stale_max(ta, td) ==
    LET inserted == update_to_add_cache(table, next_id, ta)
        deleted == update_to_delete_cache(inserted, td)
    IN  /\ table' = deleted
        /\ next_id' = next_id + Len(ta)
        /\ to_add_cache' = <<>>
        /\ to_delete_cache' = <<>>
        /\ \E rows \in select_max_rows(deleted, cache_size) :
               max_cache' = update_max_cache(max_cache, rows)

\* _update_caches, run with to_add_cache = ta and to_delete_cache = td
update_caches(ta, td) ==
    LET inserted == update_to_add_cache(table, next_id, ta)
        deleted == update_to_delete_cache(inserted, td)
    IN  /\ table' = deleted
        /\ next_id' = next_id + Len(ta)
        /\ to_add_cache' = <<>>
        /\ to_delete_cache' = <<>>
        /\ \E rows \in select_max_rows(deleted, cache_size) :
               max_cache' = update_max_cache(<<>>, rows)

\* the rectangles the caller adds: rectangle i has the name B{i}, and
\* rectangles 2j - 1 and 2j have the same smaller side
box_side(i) == inverse((i + 1) \div 2)
BoxUniverse ==
    {Detail(<<0, 0>>, <<box_side(i), Unit>>, fname(NORMAL_BOX_PREFIX, i),
            NORMAL_BOX_TYPE_1_NAME) : i \in 1..NumBoxes}

INDEX_ERROR == "pop index out of range"

Hybrid_add_box ==
    /\ pc = "storage"
    /\ calls < MaxCalls
    /\ \E d \in BoxUniverse \ present :
        LET ta == sorted_add(to_add_cache, d)
        IN  /\ IF Len(ta) > cache_size
               THEN update_caches(ta, to_delete_cache)
               ELSE /\ to_add_cache' = ta
                    /\ UNCHANGED <<max_cache, to_delete_cache, table, next_id>>
            /\ present' = present \cup {d}
    /\ ret' = None
    /\ error' = NoError
    /\ calls' = calls + 1
    /\ UNCHANGED <<cache_size, configVars, partitionVars, callerVars, engineVars, boxes, twin>>

Hybrid_get_max_box_call ==
    /\ pc = "storage"
    /\ ret' = Hybrid_get_max_box(to_add_cache, max_cache)
    /\ error' = NoError
    /\ UNCHANGED <<cache_size, to_add_cache, max_cache, to_delete_cache, table,
                   next_id, present, calls, configVars, partitionVars, callerVars, engineVars,
                   boxes, twin>>

Hybrid_pop_max_box ==
    /\ pc = "storage"
    /\ calls < MaxCalls
    /\ calls' = calls + 1
    /\ IF pop_from_max_cache(to_add_cache, max_cache)
       THEN IF Len(max_cache) = 0
            THEN \* max_cache.pop(0) raises on the empty set
                 /\ error' = INDEX_ERROR
                 /\ UNCHANGED <<to_add_cache, max_cache, to_delete_cache, table,
                                next_id, present, ret>>
            ELSE LET popped == max_cache[1]
                     td == Append(to_delete_cache, popped)
                 IN  /\ IF Len(Tail(max_cache)) = 0
                        THEN update_caches(to_add_cache, td)
                        ELSE /\ max_cache' = Tail(max_cache)
                             /\ to_delete_cache' = td
                             /\ UNCHANGED <<to_add_cache, table, next_id>>
                     /\ ret' = popped
                     /\ error' = NoError
                     /\ present' = present \ {popped}
       ELSE /\ to_add_cache' = Tail(to_add_cache)
            /\ ret' = to_add_cache[1]
            /\ error' = NoError
            /\ present' = present \ {to_add_cache[1]}
            /\ UNCHANGED <<max_cache, to_delete_cache, table, next_id>>
    /\ UNCHANGED <<cache_size, configVars, partitionVars, callerVars, engineVars, boxes, twin>>

\* HybridBoxStorage.__init__
HybridInit(size) ==
    /\ cache_size = size
    /\ to_add_cache = <<>>
    /\ max_cache = <<>>
    /\ to_delete_cache = <<>>
    /\ table = <<>>
    /\ next_id = 1
    /\ ret = None
    /\ present = {}
    /\ calls = 0

\* ------------------------------------------------ box storages as values
\* a box storage as a value, for an engine run alongside the first one: the
\* sorted set of InMemoryBoxStorage, or the caches and the table of
\* HybridBoxStorage
MemoryStorage == [kind |-> "memory", boxes |-> <<>>]

HybridStorage(size) ==
    [kind |-> "hybrid", cache_size |-> size, to_add_cache |-> <<>>,
     max_cache |-> <<>>, to_delete_cache |-> <<>>, table |-> <<>>, next_id |-> 1]

\* _update_caches: the storages the sync may leave, one per answer of the
\* database
storage_update_caches(st) ==
    LET inserted == update_to_add_cache(st.table, st.next_id, st.to_add_cache)
        deleted == update_to_delete_cache(inserted, st.to_delete_cache)
    IN  {[st EXCEPT !.table = deleted,
                    !.next_id = @ + Len(st.to_add_cache),
                    !.to_add_cache = <<>>,
                    !.to_delete_cache = <<>>,
                    !.max_cache = update_max_cache(<<>>, rows)] :
            rows \in select_max_rows(deleted, st.cache_size)}

\* add_box
storage_add_box(st, d) ==
    IF st.kind = "memory"
    THEN {[st EXCEPT !.boxes = InMemory_add_box(@, d)]}
    ELSE LET added == [st EXCEPT !.to_add_cache = sorted_add(@, d)]
         IN  IF Len(added.to_add_cache) > st.cache_size
             THEN storage_update_caches(added)
             ELSE {added}

\* get_max_box
storage_get_max_box(st) ==
    IF st.kind = "memory"
    THEN InMemory_get_max_box(st.boxes)
    ELSE Hybrid_get_max_box(st.to_add_cache, st.max_cache)

\* pop_max_box of a storage whose get_max_box is not None: what is left
storage_pop_max_box(st) ==
    IF st.kind = "memory"
    THEN {[st EXCEPT !.boxes = InMemory_pop_max_box(@)]}
    ELSE IF pop_from_max_cache(st.to_add_cache, st.max_cache)
         THEN LET popped == [st EXCEPT !.to_delete_cache = Append(@, st.max_cache[1]),
                                       !.max_cache = Tail(@)]
              IN  IF Len(popped.max_cache) = 0
                  THEN storage_update_caches(popped)
                  ELSE {popped}
         ELSE {[st EXCEPT !.to_add_cache = Tail(@)]}

\* --------------------------------------------------- SlackPackAlgorithm
BEFORE_LRP_CUT == "Slack Pack algorithm before LRP cut event"
AFTER_LRP_CUT == "Slack Pack algorithm after LRP cut event"
AFTER_DETAIL_PLACED == "Slack Pack algorithm after detail placed event"
END_EVENT == "Slack Pack algorithm end event"

\* the event type of the events' base class, which no emitted event has
BASE_EVENT == "Slack Pack algorithm event"

\* an event as the listeners see it: its type and the engine's last_placed_index
Event(type, index) == [type |-> type, last_placed_index |-> index]

\* mutant: every listener handles the event, whatever type it declares
notify_from_unfiltered(i, event) ==
    [j \in 1..(Len(statistic_listeners) - i + 1) |->
        [listener |-> i + j - 1, event |-> event]]

\* _notify_statistic_listeners for one event, from listener i on: the
\* listeners of the event's type handle it, in the order of the list
RECURSIVE notify_from(_, _)
notify_from(i, event) ==
    IF i > Len(statistic_listeners) THEN <<>>
    ELSE (IF statistic_listeners[i] = event.type
          THEN <<[listener |-> i, event |-> event]>> ELSE <<>>)
             \o notify_from(i + 1, event)

\* the deliveries of the events evs, emitted one after the other
RECURSIVE deliveries_of(_)
deliveries_of(evs) ==
    IF evs = <<>> THEN <<>>
    ELSE notify_from(1, Head(evs)) \o deliveries_of(Tail(evs))

\* the engine emits the events evs, each handled before the next is emitted
notify_statistic_listeners(evs) ==
    /\ events' = events \o evs
    /\ delivered' = delivered \o deliveries_of(evs)

\* mutant: the last index taken one too far
is_last_detail_one_late(index) == index = n0 + max_placed

\* _place_detail_in_active_box: the placed detail is the last of the run
is_last_detail(index) == index = n0 + max_placed - 1

\* mutant: the end event emitted before the after-detail-placed event
events_of_placement_end_first(placed, end, last) ==
    IF last THEN <<end, placed>> ELSE <<placed>>

\* _place_detail_in_active_box: the events it emits
events_of_placement(placed, end, last) ==
    IF last THEN <<placed, end>> ELSE <<placed>>

LRP_TOO_SMALL == "Unable to cut a new stripe, LRP is too small"
VALUE_ERROR == "list.remove(x): x not in list"

\* mutant: the try statement inside the loop, so that the loop goes on
exception_handler_pc_in_loop == "for"

\* where a raised exception leaves run_algorithm: the except clause encloses
\* the whole loop, and finally returns the list
exception_handler_pc == "returned"

\* mutant: the gap left out of the length needed
active_box_too_small_no_gap(ab, horizontal, first_index, d) ==
    /\ ab # None
    /\ LET total_length == d[1]
       IN  \/ horizontal /\ total_length > width(ab)
           \/ ~horizontal /\ total_length > height(ab)

\* _check_active_box_size: the condition under which the active box is given up
active_box_too_small(ab, horizontal, first_index, d) ==
    /\ ab # None
    /\ LET required_gap == required_gap_of(first_index)
           total_length == d[1] + required_gap
       IN  \/ horizontal /\ total_length > width(ab)
           \/ ~horizontal /\ total_length > height(ab)

\* mutant: the given-up active box is dropped
storage_after_retire_discard(bs, ab) == bs

\* _check_active_box_size: the storage once the active box is given up
storage_after_retire(bs, ab) == InMemory_add_box(bs, ab)

\* _choose_active_box: the size compared with the detail (-1 without a box)
max_box_size_of(max_box) ==
    IF max_box # None THEN Min(width(max_box), height(max_box)) ELSE -Unit

\* mutant: a box that fits exactly is not taken
box_is_suitable_strict(bs, first_index, d) ==
    LET max_box == InMemory_get_max_box(bs)
        required_gap == required_gap_of(first_index)
        total_length == d[2] + required_gap
    IN  total_length < max_box_size_of(max_box)

\* _choose_active_box: a stored box is taken rather than a stripe cut
box_is_suitable(bs, first_index, d) ==
    LET max_box == InMemory_get_max_box(bs)
        required_gap == required_gap_of(first_index)
        total_length == d[2] + required_gap
    IN  total_length <= max_box_size_of(max_box)

\* mutant: the shorter side of the LRP is not tested
lrp_too_small_long_side_only(l, d, required_gap) ==
    d[2] + required_gap > Max(width(l), height(l))

\* _cut_new_strip: the test that raises
lrp_too_small(l, d, required_gap) ==
    \/ d[2] + required_gap > Max(width(l), height(l))
    \/ d[1] + required_gap > Min(width(l), height(l))

\* _cut_new_strip: the orientation, the stripe and what is left of the LRP
\* mutant: a stripe across a square LRP is taken for an upright one
strip_is_horizontal_strict(l) == width(l) < height(l)

strip_is_horizontal(l) == width(l) <= height(l)

strip_name(count) == fname(ENDPOINT_PREFIX, count)

\* mutant: a stripe across a wide LRP is taken from its left side
strip_of_from_left(l, d, required_gap, count) ==
    IF width(l) <= height(l)
    THEN Detail(l.bottom_left,
                <<l.top_right[1], l.bottom_left[2] + d[2] + required_gap>>,
                strip_name(count), ENDPOINT_TYPE_1_NAME)
    ELSE Detail(l.bottom_left,
                <<l.bottom_left[1] + d[2] + required_gap, l.top_right[2]>>,
                strip_name(count), ENDPOINT_TYPE_1_NAME)

strip_of(l, d, required_gap, count) ==
    IF width(l) <= height(l)
    THEN Detail(l.bottom_left,
                <<l.top_right[1], l.bottom_left[2] + d[2] + required_gap>>,
                strip_name(count), ENDPOINT_TYPE_1_NAME)
    ELSE Detail(<<l.top_right[1] - d[2] - required_gap, l.bottom_left[2]>>,
                l.top_right,
                strip_name(count), ENDPOINT_TYPE_1_NAME)

\* mutant: the LRP keeps its corners after the cut
new_lrp_of_uncut(l, d, required_gap) ==
    Detail(l.bottom_left, l.top_right, bare_name(LRP_PREFIX), LRP_NAME)

new_lrp_of(l, d, required_gap) ==
    IF width(l) <= height(l)
    THEN Detail(<<l.bottom_left[1], l.bottom_left[2] + d[2] + required_gap>>,
                l.top_right, bare_name(LRP_PREFIX), LRP_NAME)
    ELSE Detail(l.bottom_left,
                <<l.top_right[1] - d[2] - required_gap, l.top_right[2]>>,
                bare_name(LRP_PREFIX), LRP_NAME)

\* mutant: the wrong constant returned for a stripe cut from the LRP
get_normal_box_type_wrong_name(from) ==
    IF from = LRP_NAME THEN LRP_NAME ELSE NORMAL_BOX_TYPE_2_NAME

\* mutant: what is left of a type 1 endpoint is treated as a stripe
get_normal_box_type_by_endpoint(from) ==
    IF from = LRP_NAME \/ from = ENDPOINT_TYPE_1_NAME
    THEN NORMAL_BOX_TYPE_1_NAME ELSE NORMAL_BOX_TYPE_2_NAME

get_normal_box_type(from) ==
    IF from = LRP_NAME THEN NORMAL_BOX_TYPE_1_NAME ELSE NORMAL_BOX_TYPE_2_NAME

\* mutant: what is left of a stored box is given the type of a normal box
get_endpoint_type_of_box(from) ==
    IF from = LRP_NAME \/ from = ENDPOINT_TYPE_1_NAME
    THEN ENDPOINT_TYPE_1_NAME ELSE NORMAL_BOX_TYPE_2_NAME

\* mutant: only a stripe leaves a type 1 endpoint
get_endpoint_type_lrp_only(from) ==
    IF from = LRP_NAME THEN ENDPOINT_TYPE_1_NAME ELSE ENDPOINT_TYPE_2_NAME

get_endpoint_type(from) ==
    IF from = LRP_NAME \/ from = ENDPOINT_TYPE_1_NAME
    THEN ENDPOINT_TYPE_1_NAME ELSE ENDPOINT_TYPE_2_NAME

\* mutant: in a vertical active box the detail is laid to the right of the
\* box's right edge
placed_detail_of_wrong_side(ab, d, horizontal, index) ==
    IF horizontal
    THEN Detail(ab.bottom_left,
                <<ab.bottom_left[1] + d[1], ab.bottom_left[2] + d[2]>>,
                fname(DETAIL_PREFIX, index), DETAIL_NAME)
    ELSE Detail(<<ab.top_right[1], ab.bottom_left[2]>>,
                <<ab.top_right[1] + d[2], ab.bottom_left[2] + d[1]>>,
                fname(DETAIL_PREFIX, index), DETAIL_NAME)

\* _place_detail_in_active_box: the three pieces the active box is cut into
placed_detail_of(ab, d, horizontal, index) ==
    IF horizontal
    THEN Detail(ab.bottom_left,
                <<ab.bottom_left[1] + d[1], ab.bottom_left[2] + d[2]>>,
                fname(DETAIL_PREFIX, index), DETAIL_NAME)
    ELSE Detail(<<ab.top_right[1] - d[2], ab.bottom_left[2]>>,
                <<ab.top_right[1], ab.bottom_left[2] + d[1]>>,
                fname(DETAIL_PREFIX, index), DETAIL_NAME)

\* mutant: the normal box starts at the active box's corner, under the detail
normal_box_of_from_corner(ab, d, horizontal, index, type) ==
    IF horizontal
    THEN Detail(ab.bottom_left,
                <<ab.bottom_left[1] + d[1], ab.top_right[2]>>,
                fname(NORMAL_BOX_PREFIX, index), type)
    ELSE Detail(ab.bottom_left,
                <<ab.top_right[1], ab.bottom_left[2] + d[1]>>,
                fname(NORMAL_BOX_PREFIX, index), type)

normal_box_of(ab, d, horizontal, index, type) ==
    IF horizontal
    THEN Detail(<<ab.bottom_left[1], ab.bottom_left[2] + d[2]>>,
                <<ab.bottom_left[1] + d[1], ab.top_right[2]>>,
                fname(NORMAL_BOX_PREFIX, index), type)
    ELSE Detail(ab.bottom_left,
                <<ab.top_right[1] - d[2], ab.bottom_left[2] + d[1]>>,
                fname(NORMAL_BOX_PREFIX, index), type)

\* mutant: the endpoint named without its counter
endpoint_of_uncounted(ab, d, horizontal, count, type) ==
    IF horizontal
    THEN Detail(<<ab.bottom_left[1] + d[1], ab.bottom_left[2]>>, ab.top_right,
                bare_name(ENDPOINT_PREFIX), type)
    ELSE Detail(<<ab.bottom_left[1], ab.bottom_left[2] + d[1]>>, ab.top_right,
                bare_name(ENDPOINT_PREFIX), type)

endpoint_of(ab, d, horizontal, count, type) ==
    IF horizontal
    THEN Detail(<<ab.bottom_left[1] + d[1], ab.bottom_left[2]>>, ab.top_right,
                fname(ENDPOINT_PREFIX, count), type)
    ELSE Detail(<<ab.bottom_left[1], ab.bottom_left[2] + d[1]>>, ab.top_right,
                fname(ENDPOINT_PREFIX, count), type)

\* mutant: the old LRP stays in the list
placed_details_after_cut_keep_lrp(pd, update, l, strip, new_lrp) ==
    IF update THEN pd \o <<strip, new_lrp>> ELSE pd

\* mutant: the stripe is not appended to the list
placed_details_after_cut_no_strip(pd, update, l, strip, new_lrp) ==
    IF update THEN list_remove(pd, l) \o <<new_lrp>> ELSE pd

\* _cut_new_strip: the placements list once the stripe is cut
placed_details_after_cut(pd, update, l, strip, new_lrp) ==
    IF update THEN list_remove(pd, l) \o <<strip, new_lrp>> ELSE pd

\* mutant: the three rectangles appended whatever the flag says
placed_details_after_placement_always(pd, update, ab, placed, box, endpoint) ==
    (IF update THEN list_remove(pd, ab) ELSE pd) \o <<placed, box, endpoint>>

\* _place_detail_in_active_box: the placements list once the detail is placed
placed_details_after_placement(pd, update, ab, placed, box, endpoint) ==
    IF update THEN list_remove(pd, ab) \o <<placed, box, endpoint>> ELSE pd

\* mutant: the normal box is not stored
stored_after_placement_nothing(bs, normal_box) == bs

\* _place_detail_in_active_box: what goes into box storage
stored_after_placement(bs, normal_box) == InMemory_add_box(bs, normal_box)

\* ------------------------------------------- a second engine, as a value
\* SlackPackAlgorithm.__init__ and the list run_algorithm starts with
Engine(update, storage) ==
    [running |-> TRUE, update_placed_details |-> update, box_storage |-> storage,
     placed_details |-> <<base_detail>>, error |-> NoError,
     lrp |-> None, active_box |-> None,
     active_box_first_detail_index |-> n0 - 1,
     is_active_box_horizontal |-> FALSE, last_placed_index |-> n0 - 1,
     endpoints_placed |-> 1, active_box_from |-> "None", events |-> <<>>]

\* no second engine
NoEngine == [running |-> FALSE]

\* _check_if_lrp_none
check_if_lrp_none_of(e) ==
    [e EXCEPT !.lrp = IF e.lrp = None THEN e.placed_details[1] ELSE e.lrp]

\* _check_active_box_size
check_active_box_size_of(e, d) ==
    IF active_box_too_small(e.active_box, e.is_active_box_horizontal,
                            e.active_box_first_detail_index, d)
    THEN {[e EXCEPT !.box_storage = st,
                    !.active_box = None,
                    !.endpoints_placed = @ + 1] :
             st \in storage_add_box(e.box_storage, e.active_box)}
    ELSE {e}

\* _choose_active_box_from_box
choose_active_box_from_box_of(e) ==
    LET popped == storage_get_max_box(e.box_storage)
    IN  {[e EXCEPT !.box_storage = st,
                   !.active_box = popped,
                   !.active_box_from = popped.detail_type,
                   !.is_active_box_horizontal = (width(popped) >= height(popped))] :
            st \in storage_pop_max_box(e.box_storage)}

\* _cut_new_strip between its two events
cut_new_strip_of(e, d) ==
    LET required_gap == required_gap_of(e.last_placed_index + 1)
        before == Event(BEFORE_LRP_CUT, e.last_placed_index)
        after == Event(AFTER_LRP_CUT, e.last_placed_index)
        strip == strip_of(e.lrp, d, required_gap, e.endpoints_placed)
        new_lrp == new_lrp_of(e.lrp, d, required_gap)
        started == [e EXCEPT !.events = Append(@, before),
                             !.active_box_from = e.lrp.detail_type]
    IN  IF lrp_too_small(e.lrp, d, required_gap)
        THEN [started EXCEPT !.error = LRP_TOO_SMALL]
        ELSE IF e.update_placed_details /\ e.lrp \notin Range(e.placed_details)
             THEN [started EXCEPT
                      !.is_active_box_horizontal = strip_is_horizontal(e.lrp),
                      !.error = VALUE_ERROR]
             ELSE [started EXCEPT
                      !.is_active_box_horizontal = strip_is_horizontal(e.lrp),
                      !.placed_details =
                          placed_details_after_cut(@, e.update_placed_details,
                                                   e.lrp, strip, new_lrp),
                      !.active_box = strip,
                      !.lrp = new_lrp,
                      !.events = Append(@, after)]

\* _choose_active_box
choose_active_box_of(e, d) ==
    IF e.active_box = None
    THEN LET first == [e EXCEPT !.active_box_first_detail_index =
                                    e.last_placed_index + 1]
             max_box == storage_get_max_box(e.box_storage)
             required_gap == required_gap_of(first.active_box_first_detail_index)
             total_length == d[2] + required_gap
         IN  IF total_length <= max_box_size_of(max_box)
             THEN choose_active_box_from_box_of(first)
             ELSE {cut_new_strip_of(first, d)}
    ELSE {e}

\* _place_detail_in_active_box
place_detail_in_active_box_of(e, d) ==
    LET normal_box_type == get_normal_box_type(e.active_box_from)
        endpoint_type == get_endpoint_type(e.active_box_from)
        index == e.last_placed_index + 1
        placed_detail == placed_detail_of(e.active_box, d,
                                          e.is_active_box_horizontal, index)
        normal_box == normal_box_of(e.active_box, d, e.is_active_box_horizontal,
                                    index, normal_box_type)
        endpoint == endpoint_of(e.active_box, d, e.is_active_box_horizontal,
                                e.endpoints_placed, endpoint_type)
        placed == Event(AFTER_DETAIL_PLACED, index)
        end == Event(END_EVENT, index)
        counted == [e EXCEPT !.last_placed_index = index]
    IN  IF e.update_placed_details /\ e.active_box \notin Range(e.placed_details)
        THEN {[counted EXCEPT !.error = VALUE_ERROR]}
        ELSE {[counted EXCEPT
                  !.placed_details =
                      placed_details_after_placement(@, e.update_placed_details,
                          e.active_box, placed_detail, normal_box, endpoint),
                  !.active_box = endpoint,
                  !.box_storage = st,
                  !.events = @ \o events_of_placement(placed, end,
                                                      is_last_detail(index))] :
                 st \in storage_add_box(e.box_storage, normal_box)}

\* place_next: the engines a call may leave; a step that raises ends the call
place_next_of(e, d) ==
    LET checked == check_active_box_size_of(check_if_lrp_none_of(e), d)
        chosen == UNION {choose_active_box_of(x, d) : x \in checked}
    IN  UNION {IF x.error = NoError
               THEN place_detail_in_active_box_of(x, d)
               ELSE {x} : x \in chosen}

\* run_algorithm of the second engine, fed the sizes the first one is fed: it
\* calls place_next while nothing has been raised
run_algorithm_of(e, d) ==
    IF e.running /\ e.error = NoError THEN place_next_of(e, d) ELSE {e}

\* ------------------------------------------------------------- actions
\* place_next, first step
check_if_lrp_none ==
    /\ pc = "check_if_lrp_none"
    /\ lrp' = IF lrp = None THEN placed_details[1] ELSE lrp
    /\ pc' = "check_active_box_size"
    /\ UNCHANGED <<hybridVars, configVars, partitionVars, twin, num_placed, placed_details, detail, error,
                   last_ok_placed, at_entry, denominator, active_box,
                   active_box_first_detail_index, is_active_box_horizontal,
                   last_placed_index, endpoints_placed, active_box_from,
                   events, delivered, boxes>>

\* place_next, second step
check_active_box_size ==
    /\ pc = "check_active_box_size"
    /\ IF active_box_too_small(active_box, is_active_box_horizontal,
                               active_box_first_detail_index, detail)
       THEN /\ boxes' = storage_after_retire(boxes, active_box)
            /\ active_box' = None
            /\ endpoints_placed' = endpoints_placed + 1
       ELSE UNCHANGED <<boxes, active_box, endpoints_placed>>
    /\ pc' = "choose_active_box"
    /\ UNCHANGED <<hybridVars, configVars, partitionVars, twin, num_placed, placed_details, detail, error,
                   last_ok_placed, at_entry, denominator, lrp,
                   active_box_first_detail_index, is_active_box_horizontal,
                   last_placed_index, active_box_from, events, delivered>>

\* _choose_active_box_from_box
choose_active_box_from_box ==
    LET popped == InMemory_get_max_box(boxes)
    IN  /\ active_box' = popped
        /\ boxes' = InMemory_pop_max_box(boxes)
        /\ active_box_from' = popped.detail_type
        /\ is_active_box_horizontal' = (width(popped) >= height(popped))
        /\ pc' = "place_detail_in_active_box"
        /\ UNCHANGED <<lrp, placed_details, error, events, delivered>>

\* mutant: the LRP is replaced before the test that raises
cut_new_strip_raise_late ==
    LET required_gap == pow(inverse(last_placed_index + 1), gamma)
        before == Event(BEFORE_LRP_CUT, last_placed_index)
        after == Event(AFTER_LRP_CUT, last_placed_index)
        strip == strip_of(lrp, detail, required_gap, endpoints_placed)
        new_lrp == new_lrp_of(lrp, detail, required_gap)
    IN  /\ active_box_from' = lrp.detail_type
        /\ IF lrp_too_small(lrp, detail, required_gap)
           THEN /\ error' = LRP_TOO_SMALL
                /\ pc' = exception_handler_pc
                /\ notify_statistic_listeners(<<before>>)
                /\ lrp' = new_lrp
                /\ UNCHANGED <<is_active_box_horizontal, placed_details,
                               active_box>>
           ELSE /\ is_active_box_horizontal' = strip_is_horizontal(lrp)
                /\ IF update_placed_details /\ lrp \notin Range(placed_details)
                   THEN /\ error' = VALUE_ERROR
                        /\ pc' = exception_handler_pc
                        /\ notify_statistic_listeners(<<before>>)
                        /\ UNCHANGED <<placed_details, active_box, lrp>>
                   ELSE /\ placed_details' =
                              placed_details_after_cut(placed_details,
                                  update_placed_details, lrp, strip, new_lrp)
                        /\ active_box' = strip
                        /\ lrp' = new_lrp
                        /\ notify_statistic_listeners(<<before, after>>)
                        /\ pc' = "place_detail_in_active_box"
                        /\ UNCHANGED error
        /\ UNCHANGED boxes

\* _cut_new_strip between its two events; an exception leaves the method at
\* the statement that raises it
cut_new_strip ==
    LET required_gap == pow(inverse(last_placed_index + 1), gamma)
        before == Event(BEFORE_LRP_CUT, last_placed_index)
        after == Event(AFTER_LRP_CUT, last_placed_index)
        strip == strip_of(lrp, detail, required_gap, endpoints_placed)
        new_lrp == new_lrp_of(lrp, detail, required_gap)
    IN  /\ active_box_from' = lrp.detail_type
        /\ IF lrp_too_small(lrp, detail, required_gap)
           THEN /\ error' = LRP_TOO_SMALL
                /\ pc' = exception_handler_pc
                /\ notify_statistic_listeners(<<before>>)
                /\ UNCHANGED <<is_active_box_horizontal, placed_details,
                               active_box, lrp>>
           ELSE /\ is_active_box_horizontal' = strip_is_horizontal(lrp)
                /\ IF update_placed_details /\ lrp \notin Range(placed_details)
                   THEN /\ error' = VALUE_ERROR
                        /\ pc' = exception_handler_pc
                        /\ notify_statistic_listeners(<<before>>)
                        /\ UNCHANGED <<placed_details, active_box, lrp>>
                   ELSE /\ placed_details' =
                              placed_details_after_cut(placed_details,
                                  update_placed_details, lrp, strip, new_lrp)
                        /\ active_box' = strip
                        /\ lrp' = new_lrp
                        /\ notify_statistic_listeners(<<before, after>>)
                        /\ pc' = "place_detail_in_active_box"
                        /\ UNCHANGED error
        /\ UNCHANGED boxes

\* place_next, third step
choose_active_box ==
    /\ pc = "choose_active_box"
    /\ IF active_box = None
       THEN /\ active_box_first_detail_index' = last_placed_index + 1
            /\ IF box_is_suitable(boxes, last_placed_index + 1, detail)
               THEN choose_active_box_from_box
               ELSE cut_new_strip
       ELSE /\ pc' = "place_detail_in_active_box"
            /\ UNCHANGED <<active_box_first_detail_index, active_box, boxes,
                           active_box_from, is_active_box_horizontal, lrp,
                           placed_details, error, events, delivered>>
    /\ UNCHANGED <<hybridVars, configVars, partitionVars, twin, num_placed, detail, last_ok_placed, at_entry, denominator,
                   last_placed_index, endpoints_placed>>

\* place_next, fourth step
place_detail_in_active_box ==
    /\ pc = "place_detail_in_active_box"
    /\ LET normal_box_type == get_normal_box_type(active_box_from)
           endpoint_type == get_endpoint_type(active_box_from)
           index == last_placed_index + 1
           placed_detail == placed_detail_of(active_box, detail,
                                             is_active_box_horizontal, index)
           normal_box == normal_box_of(active_box, detail,
                                       is_active_box_horizontal, index,
                                       normal_box_type)
           endpoint == endpoint_of(active_box, detail, is_active_box_horizontal,
                                   endpoints_placed, endpoint_type)
           placed == Event(AFTER_DETAIL_PLACED, index)
           end == Event(END_EVENT, index)
       IN  /\ last_placed_index' = index
           /\ IF update_placed_details /\ active_box \notin Range(placed_details)
              THEN /\ error' = VALUE_ERROR
                   /\ pc' = exception_handler_pc
                   /\ UNCHANGED <<placed_details, active_box, boxes, events,
                                  delivered>>
              ELSE /\ placed_details' =
                         placed_details_after_placement(placed_details,
                             update_placed_details, active_box, placed_detail,
                             normal_box, endpoint)
                   /\ active_box' = endpoint
                   /\ boxes' = stored_after_placement(boxes, normal_box)
                   /\ notify_statistic_listeners(
                          events_of_placement(placed, end, is_last_detail(index)))
                   /\ pc' = "placed"
                   /\ UNCHANGED error
    /\ UNCHANGED <<hybridVars, configVars, partitionVars, twin, num_placed, detail, last_ok_placed, at_entry, denominator,
                   lrp, active_box_first_detail_index, is_active_box_horizontal,
                   endpoints_placed, active_box_from>>

\* mutant: the quota tested with <= instead of <
run_algorithm_for_one_more ==
    /\ pc = "for"
    /\ detail' = generator_next
    /\ denominator' = denominator + 1
    /\ pc' = IF num_placed <= max_placed THEN "check_if_lrp_none" ELSE "returned"
    /\ at_entry' = IF num_placed <= max_placed
                  THEN <<lrp, last_placed_index, Len(events)>>
                  ELSE at_entry
    /\ twin' \in IF num_placed <= max_placed
                 THEN run_algorithm_of(twin, generator_next)
                 ELSE {twin}
    /\ UNCHANGED <<hybridVars, configVars, partitionVars, num_placed, placed_details, error,
                   last_ok_placed, engineVars, boxes>>

\* run_algorithm: the head of the for loop draws a size, then tests the quota
run_algorithm_for ==
    /\ pc = "for"
    /\ detail' = generator_next
    /\ denominator' = denominator + 1
    /\ pc' = IF num_placed < max_placed THEN "check_if_lrp_none" ELSE "returned"
    /\ at_entry' = IF num_placed < max_placed
                  THEN <<lrp, last_placed_index, Len(events)>>
                  ELSE at_entry
    /\ twin' \in IF num_placed < max_placed
                 THEN run_algorithm_of(twin, generator_next)
                 ELSE {twin}
    /\ UNCHANGED <<hybridVars, configVars, partitionVars, num_placed, placed_details, error,
                   last_ok_placed, engineVars, boxes>>

\* run_algorithm: place_next has returned
run_algorithm_placed ==
    /\ pc = "placed"
    /\ num_placed' = num_placed + 1
    /\ last_ok_placed' = placed_details
    /\ pc' = "for"
    /\ UNCHANGED <<hybridVars, configVars, partitionVars, twin, placed_details, detail, error, denominator, at_entry,
                   engineVars, boxes>>

SheetSizes == {i * (Unit \div 2) : i \in 1..MaxSheet}

\* SlackPackAlgorithm.__init__ and the set-up of main.py, gamma drawn from
\* gammas: the constructor stores gamma and n0 as they are given
EngineInitFor(gammas) ==
    /\ gamma \in gammas
    /\ n0 \in 1..MaxN0
    /\ max_placed \in 0..MaxPlaced
    /\ update_placed_details \in BOOLEAN
    /\ base_detail \in {Detail(<<0, 0>>, <<w, h>>, bare_name(LRP_PREFIX), LRP_NAME) :
                            w \in SheetSizes, h \in SheetSizes}
    /\ generator \in {"square", "rectangle"}
    /\ is_width_smaller \in (IF generator = "square" THEN {FALSE} ELSE BOOLEAN)
    /\ denominator = n0
    /\ pc = "for"
    /\ num_placed = 0
    /\ placed_details = <<base_detail>>
    /\ detail = <<0, 0>>
    /\ error = NoError
    /\ last_ok_placed = <<base_detail>>
    /\ at_entry = <<None, n0 - 1, 0>>
    /\ lrp = None
    /\ active_box = None
    /\ active_box_first_detail_index = n0 - 1
    /\ is_active_box_horizontal = FALSE
    /\ last_placed_index = n0 - 1
    /\ endpoints_placed = 1
    /\ active_box_from = "None"
    /\ events = <<>>
    /\ delivered = <<>>
    /\ boxes = <<>>
    /\ boxes_in_partition = 1
    /\ partition_ranges = <<>>

EngineInit == EngineInitFor(1..MaxGamma)

\* a run of main.py: the engine over the in-memory storage
Init ==
    /\ EngineInit
    /\ statistic_listeners = <<>>
    /\ HybridInit(1)
    /\ twin = NoEngine

Next ==
    \/ run_algorithm_for
    \/ check_if_lrp_none
    \/ check_active_box_size
    \/ choose_active_box
    \/ place_detail_in_active_box
    \/ run_algorithm_placed

Spec == Init /\ [][Next]_vars

\* the event types a listener may declare
ListenerTypes == {BEFORE_LRP_CUT, AFTER_LRP_CUT, AFTER_DETAIL_PLACED, END_EVENT,
                  BASE_EVENT}

\* the lists of listeners an engine may be constructed with
ListenerLists == UNION {[1..n -> ListenerTypes] : n \in 0..MaxListeners}

\* a run of squares on a square sheet, with listeners registered
InitListeners ==
    /\ EngineInit
    /\ generator = "square"
    /\ update_placed_details
    /\ width(base_detail) = height(base_detail)
    /\ statistic_listeners \in ListenerLists
    /\ HybridInit(1)
    /\ twin = NoEngine

SpecListeners == InitListeners /\ [][Next]_vars

\* two engines fed the same sizes, over in-memory storages, one with
\* update_placed_details = true and one with false
InitFlags ==
    /\ EngineInit
    /\ statistic_listeners = <<>>
    /\ HybridInit(1)
    /\ twin = Engine(~update_placed_details, MemoryStorage)

SpecFlags == InitFlags /\ [][Next]_vars

\* two engines fed the same sizes, the first over InMemoryBoxStorage and the
\* second over HybridBoxStorage
InitStorages ==
    /\ EngineInit
    /\ statistic_listeners = <<>>
    /\ HybridInit(1)
    /\ \E size \in 1..MaxCacheSize :
           twin = Engine(update_placed_details, HybridStorage(size))

SpecStorages == InitStorages /\ [][Next]_vars

\* a run of the engine constructed with any gamma from 0, in-memory storage
InitAnyGamma ==
    /\ EngineInitFor(0..MaxGamma)
    /\ statistic_listeners = <<>>
    /\ HybridInit(1)
    /\ twin = NoEngine

SpecAnyGamma == InitAnyGamma /\ [][Next]_vars

\* the cached storage on its own, driven by add_box / get_max_box / pop_max_box
InitHybrid ==
    /\ \E size \in 1..MaxCacheSize : HybridInit(size)
    /\ gamma = 1 /\ n0 = 1 /\ max_placed = 0 /\ update_placed_details = TRUE
    /\ base_detail = None /\ generator = "square" /\ is_width_smaller = FALSE
    /\ denominator = 1 /\ pc = "storage" /\ num_placed = 0
    /\ placed_details = <<>> /\ detail = <<0, 0>> /\ error = NoError
    /\ last_ok_placed = <<>> /\ at_entry = <<None, 0, 0>> /\ lrp = None /\ active_box = None
    /\ active_box_first_detail_index = 0 /\ is_active_box_horizontal = FALSE
    /\ last_placed_index = 0 /\ endpoints_placed = 1
    /\ active_box_from = "None" /\ events = <<>> /\ boxes = <<>>
    /\ statistic_listeners = <<>> /\ delivered = <<>> /\ twin = NoEngine
    /\ boxes_in_partition = 1 /\ partition_ranges = <<>>

NextHybrid ==
    \/ Hybrid_add_box
    \/ Hybrid_get_max_box_call
    \/ Hybrid_pop_max_box

SpecHybrid == InitHybrid /\ [][NextHybrid]_vars

\* _update_caches called on its own while to_add_cache and to_delete_cache
\* are both empty; the caller is then at "synced", and at "synced_twice" when
\* the call before this one was a sync as well
Hybrid_update_caches ==
    /\ pc \in {"storage", "synced", "synced_twice"}
    /\ calls < MaxCalls
    /\ to_add_cache = <<>>
    /\ to_delete_cache = <<>>
    /\ update_caches(to_add_cache, to_delete_cache)
    /\ pc' = IF pc = "storage" THEN "synced" ELSE "synced_twice"
    /\ ret' = None
    /\ error' = NoError
    /\ calls' = calls + 1
    /\ UNCHANGED <<cache_size, present, configVars, partitionVars, num_placed, placed_details,
                   detail, last_ok_placed, at_entry, denominator, engineVars, boxes, twin>>

\* the caller goes back to the calls of add_box / get_max_box / pop_max_box
Hybrid_synced ==
    /\ pc \in {"synced", "synced_twice"}
    /\ pc' = "storage"
    /\ UNCHANGED <<hybridVars, configVars, partitionVars, num_placed, placed_details, detail,
                   error, last_ok_placed, at_entry, denominator, engineVars, boxes, twin>>

\* the cached storage driven by its three operations and by syncs on empty
\* buffers
NextSync ==
    \/ Hybrid_add_box
    \/ Hybrid_get_max_box_call
    \/ Hybrid_pop_max_box
    \/ Hybrid_update_caches
    \/ Hybrid_synced

SpecSync == InitHybrid /\ [][NextSync]_vars

\* ------------------------------------------ HybridPartitionedBoxStorage
\* n ** g for whole n and g >= 0
RECURSIVE int_pow(_, _)
int_pow(n, g) == IF g = 0 THEN 1 ELSE n * int_pow(n, g - 1)

\* (1 / n) ** gamma, as the fraction <<numerator, denominator>>
inverse_pow(n) == <<1, int_pow(n, gamma)>>

\* mutant: the quotient rounded up
number_of_partitions_rounded_up(placed, in_partition) ==
    (placed + in_partition - 1) \div in_partition

\* max_placed // boxes_in_partition + 1
number_of_partitions(placed, in_partition) == placed \div in_partition + 1

\* the (min_detail, max_detail) of pass i of the loop, i from 0
partition_range(i, number) ==
    LET first_n == n0 + i * boxes_in_partition
        last_n == n0 + (i + 1) * boxes_in_partition
        min_detail == IF i = number - 1 THEN <<0, 1>> ELSE inverse_pow(last_n)
        max_detail == IF i = 0 THEN <<1, 1>> ELSE inverse_pow(first_n)
    IN  <<min_detail, max_detail>>

\* _create_partition_ranges, called by __init__ on the empty list
create_partition_ranges ==
    /\ pc = "partitions"
    /\ LET number == number_of_partitions(max_placed, boxes_in_partition)
       IN  partition_ranges' =
               partition_ranges \o [k \in 1..number |-> partition_range(k - 1, number)]
    /\ pc' = "partitioned"
    /\ UNCHANGED <<hybridVars, configVars, boxes_in_partition, num_placed,
                   placed_details, detail, error, last_ok_placed, at_entry, denominator,
                   engineVars, boxes, twin>>

\* HybridPartitionedBoxStorage.__init__ up to the call of
\* _create_partition_ranges
InitPartitions ==
    /\ HybridInit(1)
    /\ gamma \in 1..MaxGamma
    /\ n0 \in 1..MaxN0
    /\ max_placed \in 0..MaxPlaced
    /\ boxes_in_partition \in 1..MaxBoxesInPartition
    /\ partition_ranges = <<>>
    /\ update_placed_details = TRUE
    /\ base_detail = None /\ generator = "square" /\ is_width_smaller = FALSE
    /\ denominator = n0 /\ pc = "partitions" /\ num_placed = 0
    /\ placed_details = <<>> /\ detail = <<0, 0>> /\ error = NoError
    /\ last_ok_placed = <<>> /\ at_entry = <<None, 0, 0>> /\ lrp = None /\ active_box = None
    /\ active_box_first_detail_index = 0 /\ is_active_box_horizontal = FALSE
    /\ last_placed_index = 0 /\ endpoints_placed = 1
    /\ active_box_from = "None" /\ events = <<>> /\ boxes = <<>>
    /\ statistic_listeners = <<>> /\ delivered = <<>> /\ twin = NoEngine

NextPartitions == create_partition_ranges

SpecPartitions == InitPartitions /\ [][NextPartitions]_vars

\* ------------------------------------ HybridPartitionedBoxStorage in use
\* a smaller side m / Unit is at least the bound q = <<numerator, denominator>>
at_least(m, q) == m * q[2] >= q[1] * Unit

\* the rows of partition k of the table: PARTITION OF ... FOR VALUES FROM
\* (start) TO (end) holds the rows with start <= min_size < end
partition_rows(tbl, k) ==
    SelectSeq(tbl, LAMBDA row :
        /\ at_least(row.min_size, partition_ranges[k][1])
        /\ ~at_least(row.min_size, partition_ranges[k][2]))

\* mutant: only one partition is read
Partitioned_select_first_partition(partition_index, remaining_cache_size, tbl) ==
    IF remaining_cache_size > 0 /\ partition_index <= Len(partition_ranges)
    THEN select_max_rows(partition_rows(tbl, partition_index), remaining_cache_size)
    ELSE {<<>>}

\* the loop of HybridPartitionedBoxStorage._update_max_cache from partition
\* partition_index on: the row lists it can accumulate
RECURSIVE Partitioned_select_max_rows(_, _, _)
Partitioned_select_max_rows(partition_index, remaining_cache_size, tbl) ==
    IF remaining_cache_size > 0 /\ partition_index <= Len(partition_ranges)
    THEN UNION {{rows \o rest :
                    rest \in Partitioned_select_max_rows(partition_index + 1,
                                 remaining_cache_size - Len(rows), tbl)} :
                rows \in select_max_rows(partition_rows(tbl, partition_index),
                                         remaining_cache_size)}
    ELSE {<<>>}

\* HybridPartitionedBoxStorage._update_caches
Partitioned_update_caches(ta, td) ==
    LET inserted == update_to_add_cache(table, next_id, ta)
        deleted == update_to_delete_cache(inserted, td)
    IN  /\ table' = deleted
        /\ next_id' = next_id + Len(ta)
        /\ to_add_cache' = <<>>
        /\ to_delete_cache' = <<>>
        /\ \E rows \in Partitioned_select_max_rows(1, cache_size, deleted) :
               max_cache' = update_max_cache(<<>>, rows)

\* the rectangles added to the partitioned storage: their smaller side is
\* below 1, the upper end of partition 1
PartitionedBoxUniverse ==
    {Detail(<<0, 0>>, <<box_side(i + 2), Unit>>, fname(NORMAL_BOX_PREFIX, i),
            NORMAL_BOX_TYPE_1_NAME) : i \in 1..NumBoxes}

\* HybridPartitionedBoxStorage.add_box
Partitioned_add_box ==
    /\ pc = "partitioned"
    /\ calls < MaxCalls
    /\ \E d \in PartitionedBoxUniverse \ present :
        LET ta == sorted_add(to_add_cache, d)
        IN  /\ IF Len(ta) > cache_size
               THEN Partitioned_update_caches(ta, to_delete_cache)
               ELSE /\ to_add_cache' = ta
                    /\ UNCHANGED <<max_cache, to_delete_cache, table, next_id>>
            /\ present' = present \cup {d}
    /\ ret' = None
    /\ error' = NoError
    /\ calls' = calls + 1
    /\ UNCHANGED <<cache_size, configVars, partitionVars, callerVars, engineVars, boxes, twin>>

\* HybridPartitionedBoxStorage.pop_max_box
Partitioned_pop_max_box ==
    /\ pc = "partitioned"
    /\ calls < MaxCalls
    /\ calls' = calls + 1
    /\ IF pop_from_max_cache(to_add_cache, max_cache)
       THEN IF Len(max_cache) = 0
            THEN /\ error' = INDEX_ERROR
                 /\ UNCHANGED <<to_add_cache, max_cache, to_delete_cache, table,
                                next_id, present, ret>>
            ELSE LET popped == max_cache[1]
                     td == Append(to_delete_cache, popped)
                 IN  /\ IF Len(Tail(max_cache)) = 0
                        THEN Partitioned_update_caches(to_add_cache, td)
                        ELSE /\ max_cache' = Tail(max_cache)
                             /\ to_delete_cache' = td
                             /\ UNCHANGED <<to_add_cache, table, next_id>>
                     /\ ret' = popped
                     /\ error' = NoError
                     /\ present' = present \ {popped}
       ELSE /\ to_add_cache' = Tail(to_add_cache)
            /\ ret' = to_add_cache[1]
            /\ error' = NoError
            /\ present' = present \ {to_add_cache[1]}
            /\ UNCHANGED <<max_cache, to_delete_cache, table, next_id>>
    /\ UNCHANGED <<cache_size, configVars, partitionVars, callerVars, engineVars, boxes, twin>>

\* HybridPartitionedBoxStorage.__init__ up to the call of
\* _create_partition_ranges, for the largest number of details
InitPartitioned ==
    /\ \E size \in 1..MaxCacheSize : HybridInit(size)
    /\ gamma \in 1..MaxGamma
    /\ n0 \in 1..MaxN0
    /\ max_placed = MaxPlaced
    /\ boxes_in_partition \in 1..MaxBoxesInPartition
    /\ partition_ranges = <<>>
    /\ update_placed_details = TRUE
    /\ base_detail = None /\ generator = "square" /\ is_width_smaller = FALSE
    /\ denominator = n0 /\ pc = "partitions" /\ num_placed = 0
    /\ placed_details = <<>> /\ detail = <<0, 0>> /\ error = NoError
    /\ last_ok_placed = <<>> /\ at_entry = <<None, 0, 0>> /\ lrp = None /\ active_box = None
    /\ active_box_first_detail_index = 0 /\ is_active_box_horizontal = FALSE
    /\ last_placed_index = 0 /\ endpoints_placed = 1
    /\ active_box_from = "None" /\ events = <<>> /\ boxes = <<>>
    /\ statistic_listeners = <<>> /\ delivered = <<>> /\ twin = NoEngine

NextPartitioned ==
    \/ create_partition_ranges
    \/ Partitioned_add_box
    \/ Partitioned_pop_max_box

SpecPartitioned == InitPartitioned /\ [][NextPartitioned]_vars

\* InMemoryBoxStorage.add_box, called with a rectangle not stored at present
Memory_add_box ==
    /\ pc = "memory"
    /\ calls < MaxCalls
    /\ \E d \in BoxUniverse \ present :
        /\ boxes' = InMemory_add_box(boxes, d)
        /\ present' = present \cup {d}
    /\ ret' = None
    /\ calls' = calls + 1
    /\ UNCHANGED <<cache_size, to_add_cache, max_cache, to_delete_cache, table,
                   next_id, configVars, partitionVars, driverVars, engineVars, twin>>

\* InMemoryBoxStorage.get_max_box
Memory_get_max_box ==
    /\ pc = "memory"
    /\ ret' = InMemory_get_max_box(boxes)
    /\ UNCHANGED <<cache_size, to_add_cache, max_cache, to_delete_cache, table,
                   next_id, present, calls, configVars, partitionVars, driverVars, engineVars,
                   boxes, twin>>

\* InMemoryBoxStorage.pop_max_box
Memory_pop_max_box ==
    /\ pc = "memory"
    /\ calls < MaxCalls
    /\ calls' = calls + 1
    /\ ret' = InMemory_get_max_box(boxes)
    /\ boxes' = InMemory_pop_max_box(boxes)
    /\ present' = present \ {InMemory_get_max_box(boxes)}
    /\ UNCHANGED <<cache_size, to_add_cache, max_cache, to_delete_cache, table,
                   next_id, configVars, partitionVars, driverVars, engineVars, twin>>

\* the in-memory storage on its own, driven by add_box / get_max_box /
\* pop_max_box
InitMemory ==
    /\ HybridInit(1)
    /\ gamma = 1 /\ n0 = 1 /\ max_placed = 0 /\ update_placed_details = TRUE
    /\ base_detail = None /\ generator = "square" /\ is_width_smaller = FALSE
    /\ denominator = 1 /\ pc = "memory" /\ num_placed = 0
    /\ placed_details = <<>> /\ detail = <<0, 0>> /\ error = NoError
    /\ last_ok_placed = <<>> /\ at_entry = <<None, 0, 0>> /\ lrp = None /\ active_box = None
    /\ active_box_first_detail_index = 0 /\ is_active_box_horizontal = FALSE
    /\ last_placed_index = 0 /\ endpoints_placed = 1
    /\ active_box_from = "None" /\ events = <<>> /\ boxes = <<>>
    /\ statistic_listeners = <<>> /\ delivered = <<>> /\ twin = NoEngine
    /\ boxes_in_partition = 1 /\ partition_ranges = <<>>

NextMemory ==
    \/ Memory_add_box
    \/ Memory_get_max_box
    \/ Memory_pop_max_box

SpecMemory == InitMemory /\ [][NextMemory]_vars

\* ------------------------------------------------------------- claims
\* the largest smaller side among a non-empty set of rectangles
max_min_size(S) == CHOOSE m \in {min_size(d) : d \in S} :
                       \A d \in S : min_size(d) <= m

\* C1: after any sequence of add_box / get_max_box / pop_max_box calls on the
\* cached storage, get_max_box returns None exactly when no rectangle is
\* added and not yet popped, and otherwise a rectangle whose min(width, height)
\* is the maximum over the rectangles added and not yet popped.
C1_PeekIsNaiveMax ==
    pc = "storage" =>
        LET m == Hybrid_get_max_box(to_add_cache, max_cache)
        IN  IF present = {} THEN m = None
            ELSE m # None /\ min_size(m) = max_min_size(present)

\* --- the placements list after a successful place_next
after_place_next == pc = "placed"

\* the open interiors of two rectangles meet
interiors_overlap(a, b) ==
    /\ Max(a.bottom_left[1], b.bottom_left[1]) < Min(a.top_right[1], b.top_right[1])
    /\ Max(a.bottom_left[2], b.bottom_left[2]) < Min(a.top_right[2], b.top_right[2])

area(d) == width(d) * height(d)

RECURSIVE total_area(_)
total_area(s) == IF s = <<>> THEN 0 ELSE area(Head(s)) + total_area(Tail(s))

inside(d, sheet) ==
    /\ sheet.bottom_left[1] <= d.bottom_left[1]
    /\ sheet.bottom_left[2] <= d.bottom_left[2]
    /\ d.bottom_left[1] <= d.top_right[1]
    /\ d.bottom_left[2] <= d.top_right[2]
    /\ d.top_right[1] <= sheet.top_right[1]
    /\ d.top_right[2] <= sheet.top_right[2]

\* C2 (I1): after every successful place_next with update_placed_details =
\* true, no two rectangles of the placements list overlap in their interiors.
C2_Disjoint ==
    (after_place_next /\ update_placed_details) =>
        \A i, j \in 1..Len(placed_details) :
            i < j => ~interiors_overlap(placed_details[i], placed_details[j])

\* a placement into a box taken from storage has happened, beside a stripe
C2_Witness ==
    /\ after_place_next /\ update_placed_details
    /\ Len(placed_details) >= 8
    /\ \E i \in 1..Len(placed_details) :
           placed_details[i].detail_type = NORMAL_BOX_TYPE_2_NAME

\* C3 (I3): after every successful place_next with update_placed_details =
\* true, the areas of the rectangles of the placements list add up to the
\* area of the initial sheet.
C3_AreaConserved ==
    (after_place_next /\ update_placed_details) =>
        total_area(placed_details) = area(base_detail)

\* two stripes have been cut and a detail placed in the second
C3_Witness ==
    /\ after_place_next /\ update_placed_details
    /\ Len(placed_details) >= 7
    /\ endpoints_placed >= 2
    /\ active_box_from = LRP_NAME

\* C4 (I2): after every successful place_next, every rectangle of the
\* placements list lies inside the initial sheet.
C4_Contained ==
    after_place_next =>
        \A i \in 1..Len(placed_details) : inside(placed_details[i], base_detail)

\* a detail placed in a vertical active box, away from the sheet's origin
C4_Witness ==
    /\ after_place_next /\ update_placed_details
    /\ ~is_active_box_horizontal
    /\ num_placed >= 2
    /\ \E i \in 1..Len(placed_details) :
           /\ placed_details[i].detail_type = DETAIL_NAME
           /\ placed_details[i].bottom_left[1] > 0

\* the length of the active box along which details are laid
active_box_length ==
    IF is_active_box_horizontal THEN width(active_box) ELSE height(active_box)

between_calls == pc \in {"for", "placed", "returned"}

\* C6 (I6): between place_next calls, any two distinct rectangles among those
\* of the placements list and those of box storage have different names.
C6_UniqueNames ==
    between_calls =>
        /\ \A i, j \in 1..Len(placed_details) :
               i # j => placed_details[i].name # placed_details[j].name
        /\ \A i, j \in 1..Len(boxes) : i # j => boxes[i].name # boxes[j].name
        /\ \A a \in Range(placed_details), b \in Range(boxes) :
               a # b => a.name # b.name

\* storage holds a given-up endpoint, and a later endpoint is in the list
C6_Witness ==
    /\ between_calls /\ update_placed_details
    /\ \E b \in Range(boxes) : b.name[1] = ENDPOINT_PREFIX
    /\ \E a \in Range(placed_details) :
           a.name[1] = ENDPOINT_PREFIX /\ a \notin Range(boxes)

\* the retire step of _check_active_box_size is about to give up the active box
retiring ==
    /\ pc = "check_active_box_size"
    /\ active_box # None
    /\ detail[1] + pow(inverse(active_box_first_detail_index), gamma)
           > active_box_length

no_room_anywhere ==
    LET gap == pow(inverse(last_placed_index + 1), gamma)
        w == detail[1]
        h == detail[2]
    IN  /\ active_box = None
        /\ \A M \in Range(boxes) : ~(h + gap <= Min(width(M), height(M)))
        /\ \/ h + gap > Max(width(lrp), height(lrp))
           \/ w + gap > Min(width(lrp), height(lrp))

\* C9: place_next raises 'LRP too small' exactly when, after the retire step,
\* there is no active box, no stored box M has h + gap <= min(M.width,
\* M.height), and h + gap > max(lrp.w, lrp.h) or w + gap > min(lrp.w, lrp.h),
\* with gap = (1/(last_placed_index+1))^gamma; in every other case the call
\* completes and places the detail.
C9_RaisesExactlyWhenNoRoom ==
    /\ [][pc = "choose_active_box" =>
            /\ (error' = LRP_TOO_SMALL) <=> no_room_anywhere
            /\ ~no_room_anywhere =>
                   (pc' = "place_detail_in_active_box" /\ error' = NoError)]_vars
    /\ [][pc = "place_detail_in_active_box" =>
            /\ pc' = "placed"
            /\ error' = NoError
            /\ last_placed_index' = last_placed_index + 1
            /\ update_placed_details =>
                   \E i \in 1..Len(placed_details') :
                       /\ placed_details'[i].name =
                              fname(DETAIL_PREFIX, last_placed_index + 1)
                       /\ {width(placed_details'[i]), height(placed_details'[i])}
                              = {detail[1], detail[2]}]_vars
    /\ [][(pc = "check_if_lrp_none" \/ pc = "check_active_box_size") =>
            error' = NoError]_vars

\* the call has raised with boxes in storage, none of them large enough
C9_Witness ==
    /\ error = LRP_TOO_SMALL
    /\ Len(boxes) >= 2

\* C10: once place_next has raised, run_algorithm makes no further place_next
\* call, returns normally, and returns the placements list as it was after
\* the last successful place_next.
C10_DriverStopsOnError ==
    /\ [](error # NoError =>
            /\ pc = "returned"
            /\ placed_details = last_ok_placed)
    /\ [][error # NoError => UNCHANGED <<pc, placed_details, num_placed,
                                         last_placed_index>>]_vars

\* the run has ended on an exception after some details were placed
C10_Witness ==
    /\ pc = "returned"
    /\ error # NoError
    /\ update_placed_details
    /\ num_placed >= 1
    /\ Len(placed_details) >= 4

\* the size the generator yields when its denominator is d
size_at(d) ==
    IF generator = "square" THEN HarmonicSquare_next(d)
    ELSE HarmonicRectangle_next(d, is_width_smaller)

\* the types of the events emitted so far, in order
event_types == [i \in 1..Len(events) |-> events[i].type]

\* the number of events of one type emitted so far
count_events(type) == Cardinality({i \in 1..Len(events) : events[i].type = type})

run_ended_without_failure == pc = "returned" /\ error = NoError

\* C11: run_algorithm calls place_next only while fewer than max_placed calls
\* have returned, the i-th call with the i-th size of the generator; a run
\* without a failure ends after exactly max_placed placements; with
\* max_placed = 0 it returns [sheet] and place_next is never called; with
\* max_placed = 1 a run without a failure makes exactly one stripe cut and one
\* placement.
C11_QuotaOfCalls ==
    /\ [][pc = "for" /\ pc' = "check_if_lrp_none" =>
            /\ num_placed < max_placed
            /\ detail' = size_at(n0 + num_placed)]_vars
    /\ [](run_ended_without_failure =>
            /\ num_placed = max_placed
            /\ count_events(AFTER_DETAIL_PLACED) = max_placed
            /\ last_placed_index = n0 - 1 + max_placed)
    /\ [](max_placed = 0 /\ pc # "for" =>
            /\ pc = "returned"
            /\ placed_details = <<base_detail>>
            /\ events = <<>>)
    /\ [](max_placed = 1 /\ run_ended_without_failure =>
            event_types = <<BEFORE_LRP_CUT, AFTER_LRP_CUT, AFTER_DETAIL_PLACED,
                            END_EVENT>>)

\* a run of several placements has ended without a failure
C11_Witness ==
    /\ run_ended_without_failure
    /\ max_placed >= 3
    /\ num_placed = max_placed

\* the number of place_next calls that have returned
successful_calls == IF pc = "placed" THEN num_placed + 1 ELSE num_placed

\* the positions of the rectangles of type detail in the placements list
detail_positions ==
    {i \in 1..Len(placed_details) : placed_details[i].detail_type = DETAIL_NAME}

\* C12: after k successful place_next calls last_placed_index = n0 - 1 + k,
\* and with update_placed_details = true the placements list holds exactly k
\* rectangles of type detail, named D{n0} .. D{n0+k-1}, each once; a
\* rectangle of type detail in the list is still in it, unchanged, after any
\* step.
C12_DetailsAccumulate ==
    /\ [](last_placed_index = n0 - 1 + successful_calls)
    /\ [](update_placed_details =>
            /\ Cardinality(detail_positions) = successful_calls
            /\ {placed_details[i].name : i \in detail_positions}
                   = {<<DETAIL_PREFIX, n0 + j>> : j \in 0..(successful_calls - 1)})
    /\ [][\A i \in detail_positions :
               \E j \in 1..Len(placed_details') :
                   placed_details'[j] = placed_details[i]]_vars

\* three details are in the list, the engine not having started at index 1
C12_Witness ==
    /\ update_placed_details
    /\ n0 >= 2
    /\ pc = "placed"
    /\ Cardinality(detail_positions) >= 3

\* event e2 may be the one emitted next after e1: inside a call the order is
\* before-LRP-cut, after-LRP-cut, after-detail-placed, end; a new call starts
\* after an after-detail-placed or an end event
may_follow(e1, e2) ==
    \/ /\ e1.type = BEFORE_LRP_CUT /\ e2.type = AFTER_LRP_CUT
       /\ e2.last_placed_index = e1.last_placed_index
    \/ /\ e1.type = AFTER_LRP_CUT /\ e2.type = AFTER_DETAIL_PLACED
       /\ e2.last_placed_index = e1.last_placed_index + 1
    \/ /\ e1.type = AFTER_DETAIL_PLACED /\ e2.type = END_EVENT
       /\ e2.last_placed_index = e1.last_placed_index
    \/ /\ e1.type \in {AFTER_DETAIL_PLACED, END_EVENT}
       /\ e2.type = BEFORE_LRP_CUT
       /\ e2.last_placed_index = e1.last_placed_index
    \/ /\ e1.type \in {AFTER_DETAIL_PLACED, END_EVENT}
       /\ e2.type = AFTER_DETAIL_PLACED
       /\ e2.last_placed_index = e1.last_placed_index + 1

events_in_order ==
    /\ events # <<>> => events[1].type \in {BEFORE_LRP_CUT, AFTER_DETAIL_PLACED}
    /\ \A i \in 1..(Len(events) - 1) : may_follow(events[i], events[i + 1])

\* the before-LRP-cut event at position i has its after-LRP-cut event next
cut_closed(i) ==
    /\ i < Len(events)
    /\ events[i + 1].type = AFTER_LRP_CUT
    /\ events[i + 1].last_placed_index = events[i].last_placed_index

\* C13 as claimed: the events of a call come in the order before-LRP-cut,
\* after-LRP-cut, after-detail-placed, end, and once the call is over every
\* before-LRP-cut event has been followed at once by the after-LRP-cut event
\* of the same detail.
C13_EveryCutClosed ==
    /\ events_in_order
    /\ between_calls =>
           \A i \in 1..Len(events) :
               events[i].type = BEFORE_LRP_CUT => cut_closed(i)

\* C13 as amended: the same, except that the before-LRP-cut event of a cut
\* that raises 'LRP too small' has no after-LRP-cut event and is the last
\* event emitted.
C13_CutClosedUnlessRaised ==
    /\ events_in_order
    /\ between_calls =>
           \A i \in 1..Len(events) :
               events[i].type = BEFORE_LRP_CUT =>
                   \/ cut_closed(i)
                   \/ i = Len(events) /\ error = LRP_TOO_SMALL
    /\ error = LRP_TOO_SMALL =>
           /\ events # <<>>
           /\ events[Len(events)].type = BEFORE_LRP_CUT

\* a cut has raised after an earlier cut and its placement
C13_Witness ==
    /\ error = LRP_TOO_SMALL
    /\ count_events(AFTER_LRP_CUT) >= 1
    /\ count_events(AFTER_DETAIL_PLACED) >= 1
    /\ events[Len(events)].type = BEFORE_LRP_CUT

\* C14: an end event is the last event emitted, it comes right after the
\* after-detail-placed event of detail n0 + max_placed - 1 and belongs to
\* that detail, so that no earlier detail has one; a run with max_placed >= 1
\* that ends without a failure has emitted exactly one end event.
C14_EndEventOnceAtTheEnd ==
    /\ \A i \in 1..Len(events) :
           events[i].type = END_EVENT =>
               /\ i = Len(events)
               /\ i >= 2
               /\ events[i - 1].type = AFTER_DETAIL_PLACED
               /\ events[i - 1].last_placed_index = n0 + max_placed - 1
               /\ events[i].last_placed_index = n0 + max_placed - 1
    /\ (run_ended_without_failure /\ max_placed >= 1) =>
           /\ count_events(END_EVENT) = 1
           /\ events[Len(events)].type = END_EVENT

\* a run of several placements has ended with the end event
C14_Witness ==
    /\ run_ended_without_failure
    /\ max_placed >= 2
    /\ count_events(END_EVENT) = 1
    /\ count_events(AFTER_DETAIL_PLACED) = max_placed

\* listener l declares the type of event e
listens_to(l, e) == statistic_listeners[l] = e.type

\* the position of event e in the sequence of emitted events
position_of(e) == CHOOSE i \in 1..Len(events) : events[i] = e

\* C15: at every step of the engine the deliveries made so far are exactly
\* one per emitted event and registered listener declaring that event's
\* type, ordered by emission and, for one event, by registration; a listener
\* receives no event of another type.
C15_DispatchByType ==
    /\ \A k \in 1..Len(delivered) :
           /\ delivered[k].listener \in 1..Len(statistic_listeners)
           /\ listens_to(delivered[k].listener, delivered[k].event)
    /\ Range(delivered) =
           {[listener |-> l, event |-> e] :
               <<l, e>> \in {p \in (1..Len(statistic_listeners)) \X Range(events) :
                                listens_to(p[1], p[2])}}
    /\ \A k1, k2 \in 1..Len(delivered) :
           k1 < k2 =>
               /\ delivered[k1] # delivered[k2]
               /\ position_of(delivered[k1].event) <= position_of(delivered[k2].event)
               /\ delivered[k1].event = delivered[k2].event =>
                      delivered[k1].listener < delivered[k2].listener

\* two listeners of one type have each handled an event, and a listener of
\* another type is registered
C15_Witness ==
    /\ Len(statistic_listeners) >= 2
    /\ \E k \in 1..(Len(delivered) - 1) :
           /\ delivered[k].event = delivered[k + 1].event
           /\ delivered[k].listener < delivered[k + 1].listener
    /\ Len(events) >= 3

\* C16: with update_placed_details = false the placements list is [sheet]
\* at every step of every place_next call.
C16_ListUntouched ==
    ~update_placed_details => placed_details = <<base_detail>>

\* three calls have returned, stripes were cut and a box is stored
C16_Witness ==
    /\ ~update_placed_details
    /\ num_placed >= 3
    /\ count_events(AFTER_LRP_CUT) >= 1
    /\ Len(boxes) >= 1

\* the state of the first engine as the fields of an engine value
engine_state ==
    [lrp |-> lrp, active_box |-> active_box,
     active_box_first_detail_index |-> active_box_first_detail_index,
     is_active_box_horizontal |-> is_active_box_horizontal,
     last_placed_index |-> last_placed_index,
     endpoints_placed |-> endpoints_placed,
     active_box_from |-> active_box_from]

engine_state_of(e) ==
    [lrp |-> e.lrp, active_box |-> e.active_box,
     active_box_first_detail_index |-> e.active_box_first_detail_index,
     is_active_box_horizontal |-> e.is_active_box_horizontal,
     last_placed_index |-> e.last_placed_index,
     endpoints_placed |-> e.endpoints_placed,
     active_box_from |-> e.active_box_from]

event_types_of(e) == [i \in 1..Len(e.events) |-> e.events[i].type]

\* C17: of two engines fed the same sizes, one with update_placed_details =
\* true and one with false, after every call both have the same engine
\* state (lrp, active_box, active_box_first_detail_index,
\* is_active_box_horizontal, last_placed_index, endpoints_placed,
\* active_box_from), the same storage contents, the same sequence of event
\* types and the same outcome (returned, or raised the same error).
C17_FlagChangesOnlyTheList ==
    (between_calls /\ twin.running) =>
        /\ twin.update_placed_details # update_placed_details
        /\ engine_state_of(twin) = engine_state
        /\ twin.box_storage.boxes = boxes
        /\ event_types_of(twin) = event_types
        /\ twin.error = error

\* both engines have placed three details, cut stripes and taken a box
\* from storage
C17_Witness ==
    /\ twin.running
    /\ pc = "placed"
    /\ num_placed >= 2
    /\ count_events(AFTER_LRP_CUT) >= 1
    /\ active_box_from \in {NORMAL_BOX_TYPE_1_NAME, NORMAL_BOX_TYPE_2_NAME}
    /\ Len(twin.placed_details) # Len(placed_details)

\* C18: of two engines fed the same sizes, one over InMemoryBoxStorage and
\* one over HybridBoxStorage, after every place_next call both have the same
\* placements list and the same sequence of events.
C18_StoragesAgree ==
    (between_calls /\ twin.running) =>
        /\ twin.placed_details = placed_details
        /\ twin.events = events

\* C19: in the in-memory storage, after any sequence of add_box and
\* pop_max_box calls, get_max_box returns a stored rectangle whose smaller
\* side is the largest smaller side of all stored rectangles, and it returns
\* none exactly when nothing is stored.
C19_PeekIsMax ==
    pc = "memory" =>
        /\ Range(boxes) = present
        /\ (InMemory_get_max_box(boxes) = None) <=> (present = {})
        /\ present # {} =>
              /\ InMemory_get_max_box(boxes) \in present
              /\ min_size(InMemory_get_max_box(boxes)) = max_min_size(present)

\* get_max_box has answered with the larger of stored rectangles of two
\* sizes, the smaller of which was added first, after a pop
C19_Witness ==
    /\ pc = "memory"
    /\ calls >= 4
    /\ Cardinality(present) >= 2
    /\ Cardinality(present) < calls - 1
    /\ ret \in present
    /\ \E d \in present : min_size(d) < min_size(ret)
    /\ \E i \in 1..Len(boxes) : boxes[i] = ret /\ i = 1

\* a step that is a pop_max_box call on a storage holding no rectangle
pop_on_empty ==
    /\ present = {}
    /\ calls' = calls + 1
    /\ present' = {}

\* C20: pop_max_box on a storage in which no rectangle is present returns
\* none, raises nothing and leaves the storage empty, in the in-memory
\* storage and in the cached storage alike.
C20_PopOnEmptyIsNone ==
    [][pop_on_empty =>
          /\ error' = NoError
          /\ ret' = None
          /\ Len(boxes') = 0
          /\ Hybrid_get_max_box(to_add_cache', max_cache') = None]_vars

\* the number of next() calls made on the generator so far: one per pass
\* through the head of the driver's loop
calls_of_next == num_placed + (IF pc = "for" THEN 0 ELSE 1)

\* C21: the k-th next() on the square generator returns (1/d, 1/d) with
\* d = n0 + k - 1, and on the rectangle generator (1/(d+1), 1/d) when the
\* width is the smaller side and (1/d, 1/(d+1)) otherwise; a next() is always
\* possible, and neither component grows from one call to the next.
C21_HarmonicStream ==
    /\ [](calls_of_next >= 1 =>
            LET d == n0 + calls_of_next - 1
            IN  /\ denominator = d + 1
                /\ detail = IF generator = "square" THEN <<Unit \div d, Unit \div d>>
                            ELSE IF is_width_smaller
                                 THEN <<Unit \div (d + 1), Unit \div d>>
                                 ELSE <<Unit \div d, Unit \div (d + 1)>>)
    /\ [](pc = "for" => ENABLED (detail' = generator_next))
    /\ [][(calls_of_next >= 1 /\ detail' # detail) =>
             (detail'[1] <= detail[1] /\ detail'[2] <= detail[2])]_vars

\* the third size of a rectangle stream whose width is the smaller side
C21_Witness ==
    /\ generator = "rectangle" /\ is_width_smaller
    /\ calls_of_next = 3
    /\ pc = "check_if_lrp_none"
    /\ detail = <<Unit \div (n0 + 3), Unit \div (n0 + 2)>>
    /\ 2 * detail[1] < Unit

\* the contents max_cache may have after a sync of the present table: one for
\* each answer the database may give
synced_max_caches ==
    {update_max_cache(<<>>, rows) : rows \in select_max_rows(table, cache_size)}

\* a step that is a sync on empty buffers
sync_on_empty ==
    /\ to_add_cache = <<>>
    /\ to_delete_cache = <<>>
    /\ calls' = calls + 1
    /\ pc' \in {"synced", "synced_twice"}

partitions_created == pc = "partitioned"

\* C23: the partitioned storage creates exactly
\* ceil(max_placed / boxes_in_partition) partition ranges, for every
\* max_placed >= 1 and boxes_in_partition >= 1.
C23_PartitionsRoundedUp ==
    (partitions_created /\ max_placed >= 1) =>
        /\ Len(partition_ranges) * boxes_in_partition >= max_placed
        /\ (Len(partition_ranges) - 1) * boxes_in_partition < max_placed

\* C23, amended: the partitioned storage creates exactly
\* floor(max_placed / boxes_in_partition) + 1 partition ranges, one more than
\* ceil(max_placed / boxes_in_partition) whenever boxes_in_partition divides
\* max_placed.
C23_PartitionsFloorPlusOne ==
    (partitions_created /\ max_placed >= 1) =>
        /\ Len(partition_ranges) * boxes_in_partition > max_placed
        /\ (Len(partition_ranges) - 1) * boxes_in_partition <= max_placed
        /\ (max_placed % boxes_in_partition = 0 =>
               (Len(partition_ranges) - 1) * boxes_in_partition = max_placed)

\* the ranges of four placements in partitions of two: three ranges, where
\* the quotient rounded up is two
C23_Witness ==
    /\ partitions_created
    /\ max_placed = 4 /\ boxes_in_partition = 2
    /\ Len(partition_ranges) = 3
    /\ partition_ranges[3][1] = <<0, 1>>
    /\ partition_ranges[1][2] = <<1, 1>>

\* C24: an engine given gamma <= 0 or n0 <= 0 fails when it is constructed,
\* before any placement: no run of it cuts a stripe, places a detail or emits
\* an event.
C24_InvalidGammaRejected ==
    (gamma <= 0 \/ n0 <= 0) =>
        /\ events = <<>>
        /\ num_placed = 0
        /\ last_placed_index = n0 - 1
        /\ lrp = None

\* --- step 4.3.2, the choice of an active box
choosing == pc = "choose_active_box"

\* the largest stored box, when the step begins
M == IF Len(boxes) > 0 THEN boxes[1] ELSE None

\* M exists and h + (1 / (last_placed_index + 1)) ^ gamma fits its smaller side
M_fits ==
    /\ M # None
    /\ detail[2] + pow(Unit \div (last_placed_index + 1), gamma)
           <= Min(width(M), height(M))

\* the step pops M and adopts it
M_adopted ==
    /\ active_box' = M
    /\ boxes' = Tail(boxes)
    /\ active_box_from' = M.detail_type
    /\ is_active_box_horizontal' = (width(M) >= height(M))
    /\ lrp' = lrp
    /\ error' = NoError

\* the step cuts a stripe from the LRP and leaves storage alone
stripe_cut ==
    /\ boxes' = boxes
    /\ active_box' # None
    /\ active_box'.detail_type = ENDPOINT_TYPE_1_NAME
    /\ active_box_from' = LRP_NAME
    /\ lrp' # lrp
    /\ area(active_box') + area(lrp') = area(lrp)
    /\ error' = NoError

\* the step raises for want of room and leaves storage, the active box and
\* the LRP alone
cut_raised ==
    /\ boxes' = boxes
    /\ active_box' = None
    /\ lrp' = lrp
    /\ error' = LRP_TOO_SMALL

\* the step leaves the active box, storage and the LRP alone
nothing_chosen ==
    /\ active_box' = active_box
    /\ boxes' = boxes
    /\ lrp' = lrp

\* C25: in step 4.3.2 with no active box, the largest stored box M is popped
\* and adopted exactly when M exists and h + (1/(last_placed_index+1))^gamma
\* <= min(M.width, M.height); otherwise a stripe is cut from the LRP and
\* storage is not popped; with an active box present the step changes neither
\* storage nor the LRP.
C25_PopOrCut ==
    [][choosing =>
          IF active_box = None
          THEN IF M_fits THEN M_adopted ELSE stripe_cut
          ELSE nothing_chosen]_vars

\* C25, amended: as C25, but when M does not exist or does not fit and the
\* LRP is too small for the stripe, no stripe is cut: the step raises 'LRP too
\* small' and leaves storage, the active box and the LRP as they were.
C25_PopOrCutOrRaise ==
    [][choosing =>
          IF active_box = None
          THEN IF M_fits THEN M_adopted ELSE (stripe_cut \/ cut_raised)
          ELSE nothing_chosen]_vars

\* a stored box has been adopted while a larger part of the LRP was left, and
\* storage still holds a box
C25_Witness ==
    /\ pc = "place_detail_in_active_box"
    /\ active_box_from \in {NORMAL_BOX_TYPE_1_NAME, NORMAL_BOX_TYPE_2_NAME}
    /\ active_box.detail_type = active_box_from
    /\ active_box_first_detail_index = last_placed_index + 1
    /\ Len(boxes) >= 1
    /\ error = NoError

\* --- step 4.3.3, the cut of a stripe
\* a step that cuts a stripe and returns: both events of the cut are emitted
successful_cut == choosing /\ Len(events') = Len(events) + 2

\* h + (1 / (last_placed_index + 1)) ^ gamma
stripe_thickness == detail[2] + pow(Unit \div (last_placed_index + 1), gamma)

\* C26: a successful stripe cut splits the old LRP into two interior-disjoint
\* rectangles whose union is the old LRP: a stripe of thickness h + gap across
\* the whole shorter side of the LRP, taken from the bottom when lrp.w <=
\* lrp.h and from the right otherwise, and the new LRP, whose extent along
\* the shorter side is unchanged; the stripe has type endpoint_1 and name
\* E{endpoints_placed}, the new LRP type lrp and name LRP, and active_box_from
\* becomes lrp.
C26_CutSplitsLrp ==
    [][successful_cut =>
          LET stripe == active_box'
              new_lrp == lrp'
          IN  /\ ~interiors_overlap(stripe, new_lrp)
              /\ inside(stripe, lrp) /\ inside(new_lrp, lrp)
              /\ area(stripe) + area(new_lrp) = area(lrp)
              /\ IF width(lrp) <= height(lrp)
                 THEN /\ stripe.bottom_left = lrp.bottom_left
                      /\ width(stripe) = width(lrp)
                      /\ height(stripe) = stripe_thickness
                      /\ new_lrp.top_right = lrp.top_right
                      /\ width(new_lrp) = width(lrp)
                      /\ new_lrp.bottom_left[2] = stripe.top_right[2]
                 ELSE /\ stripe.top_right = lrp.top_right
                      /\ height(stripe) = height(lrp)
                      /\ width(stripe) = stripe_thickness
                      /\ new_lrp.bottom_left = lrp.bottom_left
                      /\ height(new_lrp) = height(lrp)
                      /\ new_lrp.top_right[1] = stripe.bottom_left[1]
              /\ stripe.detail_type = ENDPOINT_TYPE_1_NAME
              /\ stripe.name = <<ENDPOINT_PREFIX, endpoints_placed>>
              /\ new_lrp.detail_type = LRP_NAME
              /\ new_lrp.name = <<LRP_PREFIX, -1>>
              /\ active_box_from' = LRP_NAME
              /\ update_placed_details =>
                    /\ Len(placed_details') = Len(placed_details) + 1
                    /\ lrp \notin Range(placed_details')
                    /\ placed_details'[Len(placed_details)] = stripe
                    /\ placed_details'[Len(placed_details) + 1] = new_lrp]_vars

\* a second stripe has been cut, from the right side of an LRP wider than high
C26_Witness ==
    /\ pc = "place_detail_in_active_box"
    /\ active_box_from = LRP_NAME
    /\ active_box.name = <<ENDPOINT_PREFIX, 2>>
    /\ ~is_active_box_horizontal
    /\ active_box.bottom_left[1] = lrp.top_right[1]
    /\ height(active_box) = height(lrp)
    /\ width(lrp) > 0
    /\ events[Len(events)].type = AFTER_LRP_CUT

\* --- step 4.3.4, the placement
\* a step that places a detail and returns
successful_placement == pc = "place_detail_in_active_box" /\ pc' = "placed"

\* the rectangles storage gains by the step
newly_stored == Range(boxes') \ Range(boxes)

\* C27: a successful placement of detail n takes the old active box out of
\* the placements list and appends exactly three rectangles, D{n}, B{n} and
\* an endpoint, pairwise interior-disjoint and with the old active box as
\* their union; B{n} is added to box storage, and the endpoint becomes the
\* active box and is not stored by the placement.
C27_PlacementSplitsBox ==
    [][successful_placement =>
          LET n == last_placed_index + 1
              endpoint == active_box'
              k == Len(placed_details)
          IN  /\ last_placed_index' = n
              /\ Cardinality(newly_stored) = 1
              /\ Len(boxes') = Len(boxes) + 1
              /\ endpoint \notin Range(boxes')
              /\ endpoint.name = <<ENDPOINT_PREFIX, endpoints_placed>>
              /\ inside(endpoint, active_box)
              /\ \A box \in newly_stored :
                    /\ box.name = <<NORMAL_BOX_PREFIX, n>>
                    /\ inside(box, active_box)
                    /\ ~interiors_overlap(box, endpoint)
                    /\ area(box) + area(endpoint) + detail[1] * detail[2]
                           = area(active_box)
              /\ update_placed_details =>
                    LET placed == placed_details'[k]
                    IN  /\ Len(placed_details') = k + 2
                        /\ active_box \in Range(placed_details)
                        /\ active_box \notin Range(placed_details')
                        /\ \A d \in Range(placed_details) \ {active_box} :
                               d \in Range(placed_details')
                        /\ placed.name = <<DETAIL_PREFIX, n>>
                        /\ placed.detail_type = DETAIL_NAME
                        /\ area(placed) = detail[1] * detail[2]
                        /\ inside(placed, active_box)
                        /\ placed_details'[k + 1] \in newly_stored
                        /\ placed_details'[k + 2] = endpoint
                        /\ ~interiors_overlap(placed, endpoint)
                        /\ ~interiors_overlap(placed, placed_details'[k + 1])]_vars

\* a detail has been placed in a box taken from storage, standing upright,
\* with the list updated
C27_Witness ==
    /\ pc = "placed"
    /\ update_placed_details
    /\ ~is_active_box_horizontal
    /\ active_box_from \in {NORMAL_BOX_TYPE_1_NAME, NORMAL_BOX_TYPE_2_NAME}
    /\ Len(placed_details) >= 6
    /\ placed_details[Len(placed_details)] = active_box
    /\ placed_details[Len(placed_details) - 1] \in Range(boxes)
    /\ placed_details[Len(placed_details) - 2].name = <<DETAIL_PREFIX, last_placed_index>>

\* the rectangles the engine holds: the list, the storage, the LRP and the
\* active box
rectangles_held ==
    (Range(placed_details) \cup Range(boxes) \cup {lrp, active_box}) \ {None}

\* C28: after any sequence of successful place_next calls every rectangle the
\* engine has created (stripe, new LRP, placed detail, normal box, endpoint)
\* has a strictly positive width and a strictly positive height.
C28_PositiveSizes ==
    after_place_next =>
        \A d \in rectangles_held : width(d) > 0 /\ height(d) > 0

successful_adoption == choosing /\ active_box = None /\ boxes' # boxes

C30_ActiveBoxIsEndpoint ==
    (pc = "check_active_box_size" /\ active_box # None) =>
        active_box.detail_type \in {ENDPOINT_TYPE_1_NAME, ENDPOINT_TYPE_2_NAME}

\* the retire check meets what is left of a normal box taken from storage,
\* too short for the next detail
C30_Witness ==
    /\ pc = "check_active_box_size"
    /\ active_box # None
    /\ active_box_from \in {NORMAL_BOX_TYPE_1_NAME, NORMAL_BOX_TYPE_2_NAME}
    /\ active_box.detail_type = ENDPOINT_TYPE_2_NAME
    /\ detail[1] + pow(Unit \div active_box_first_detail_index, gamma)
           > (IF is_active_box_horizontal THEN width(active_box)
              ELSE height(active_box))

\* C31: the normal box B{n} has type normal_box_1 exactly when
\* active_box_from = lrp at the placement, and normal_box_2 otherwise;
\* active_box_from is lrp from the cut of a stripe until the next choice of an
\* active box, and the type of the adopted box from an adoption on, so the
\* normal boxes of a stripe are all normal_box_1 and those of a box taken from
\* storage all normal_box_2.
C31_NormalBoxType ==
    [][/\ successful_placement =>
              \A box \in newly_stored :
                  box.detail_type = IF active_box_from = LRP_NAME
                                    THEN NORMAL_BOX_TYPE_1_NAME
                                    ELSE NORMAL_BOX_TYPE_2_NAME
       /\ successful_cut => active_box_from' = LRP_NAME
       /\ successful_adoption =>
              /\ active_box_from' = M.detail_type
              /\ active_box_from' # LRP_NAME
       /\ ~choosing => active_box_from' = active_box_from]_vars

\* the second detail of a stripe has been placed after a detail placed in a
\* box taken from storage: storage holds normal boxes of both types
C31_Witness ==
    /\ pc = "placed"
    /\ active_box_from = LRP_NAME
    /\ last_placed_index > active_box_first_detail_index
    /\ \E b \in Range(boxes) :
           /\ b.name = <<NORMAL_BOX_PREFIX, last_placed_index>>
           /\ b.detail_type = NORMAL_BOX_TYPE_1_NAME
    /\ \E b \in Range(boxes) : b.detail_type = NORMAL_BOX_TYPE_2_NAME

\* C32: the endpoint a placement produces has type endpoint_1 exactly when
\* active_box_from is lrp or endpoint_1, and endpoint_2 otherwise; so every
\* endpoint produced in an active box adopted from a stored normal_box_1 or
\* normal_box_2 is endpoint_2.
C32_EndpointType ==
    [][/\ successful_placement =>
              active_box'.detail_type =
                  IF active_box_from \in {LRP_NAME, ENDPOINT_TYPE_1_NAME}
                  THEN ENDPOINT_TYPE_1_NAME
                  ELSE ENDPOINT_TYPE_2_NAME
       /\ (/\ successful_adoption
           /\ M.detail_type \in {NORMAL_BOX_TYPE_1_NAME, NORMAL_BOX_TYPE_2_NAME}) =>
              /\ active_box_from' = M.detail_type
              /\ pc' = "place_detail_in_active_box"
       /\ (/\ successful_placement
           /\ active_box_from \in {NORMAL_BOX_TYPE_1_NAME, NORMAL_BOX_TYPE_2_NAME}) =>
              active_box'.detail_type = ENDPOINT_TYPE_2_NAME]_vars

\* a detail has been placed in what was left of a type 1 endpoint, taken
\* from storage: the endpoint beside it is of type 1 again
C32_Witness ==
    /\ pc = "placed"
    /\ active_box_from = ENDPOINT_TYPE_1_NAME
    /\ active_box.detail_type = ENDPOINT_TYPE_1_NAME
    /\ \E b \in Range(boxes) : b.detail_type = NORMAL_BOX_TYPE_2_NAME
                               /\ b.name = <<NORMAL_BOX_PREFIX, last_placed_index>>

\* C33: after every successful place_next call the smaller side of the LRP
\* is at least min(width, height) of every rectangle held in box storage.
C33_LrpAtLeastStorage ==
    after_place_next =>
        \A b \in Range(boxes) : Min(width(lrp), height(lrp)) >= min_size(b)

\* a step of 4.3.2 that finds no active box and takes none from storage
storage_passed_over == choosing /\ active_box = None /\ Len(boxes') = Len(boxes)

\* C33, amended: box selection gives storage precedence over the LRP: a
\* stripe is cut from the LRP (or the cut raises) only when h + gap exceeds
\* min(width, height) of every rectangle held in box storage; the smaller side
\* of the LRP itself may be less than that of a stored rectangle.
C33_CutOnlyWhenNothingFits ==
    [][storage_passed_over =>
          \A b \in Range(boxes) : stripe_thickness > Min(width(b), height(b))]_vars

\* a second stripe has been cut over a non-empty storage, and what is left
\* of the LRP is narrower than the largest stored box
C33_Witness ==
    /\ pc = "placed"
    /\ active_box_from = LRP_NAME
    /\ active_box_first_detail_index = last_placed_index
    /\ active_box.name[2] >= 2
    /\ Len(boxes) >= 2
    /\ width(lrp) > 0 /\ height(lrp) > 0
    /\ Min(width(lrp), height(lrp)) < Min(width(boxes[1]), height(boxes[1]))

\* --- the cached storage, step by step
\* the rectangles of the rows of a table
details_of(tbl) ==
    {Detail(<<tbl[i].bottom_left_x, tbl[i].bottom_left_y>>,
            <<tbl[i].top_right_x, tbl[i].top_right_y>>,
            tbl[i].name, tbl[i].detail_type) : i \in 1..Len(tbl)}

names_of(s) == {s[i].name : i \in 1..Len(s)}

\* the rectangle an add_box step adds, the rectangle a pop_max_box step
\* returns
added_by_step == present' \ present
add_step == calls' = calls + 1 /\ added_by_step # {}
pop_step ==
    /\ calls' = calls + 1
    /\ added_by_step = {}
    /\ pc' = "storage"
    /\ error' = NoError

\* a step in which the storage syncs with the table
sync_step ==
    \/ table' # table
    \/ next_id' # next_id
    \/ (calls' = calls + 1 /\ pc' # "storage")

\* the buffers as the sync finds them
to_add_at_sync == Range(to_add_cache) \cup added_by_step
names_to_delete_at_sync ==
    names_of(to_delete_cache) \cup (IF pop_step THEN {ret'.name} ELSE {})

\* s holds the n rows of largest min_size of the table, largest first
is_top_of(s, n, tbl) ==
    /\ Len(s) = n
    /\ Range(s) \subseteq details_of(tbl)
    /\ \A i, j \in 1..Len(s) : i < j =>
           Min(width(s[i]), height(s[i])) >= Min(width(s[j]), height(s[j]))
    /\ \A d \in details_of(tbl) \ Range(s) : \A i \in 1..Len(s) :
           Min(width(s[i]), height(s[i])) >= Min(width(d), height(d))

\* C34: a sync of the cached storage ends with to_add and to_delete empty,
\* the table equal to its previous rows plus every rectangle of to_add minus
\* the rows whose name was in to_delete, and max_cache equal to the
\* min(cache_size, number of rows) rows of largest min_size; add_box syncs
\* exactly when it makes |to_add| exceed cache_size, so |to_add| <=
\* cache_size after every add_box.
C34_SyncPostcondition ==
    [][/\ sync_step =>
              /\ to_add_cache' = <<>>
              /\ to_delete_cache' = <<>>
              /\ details_of(table') =
                     {d \in details_of(table) \cup to_add_at_sync :
                          d.name \notin names_to_delete_at_sync}
              /\ is_top_of(max_cache', Min(cache_size, Len(table')), table')
       /\ add_step =>
              /\ sync_step <=> Len(to_add_cache) + 1 > cache_size
              /\ Len(to_add_cache') <= cache_size
              /\ ~sync_step =>
                     /\ Range(to_add_cache') = Range(to_add_cache) \cup added_by_step
                     /\ max_cache' = max_cache
                     /\ to_delete_cache' = to_delete_cache]_vars

\* an add_box has synced with rows to delete pending: the table holds more
\* rows than max_cache, two of them of the same min_size
C34_Witness ==
    /\ pc = "storage"
    /\ to_add_cache = <<>> /\ to_delete_cache = <<>>
    /\ ret = None
    /\ calls >= 5
    /\ Len(table) > cache_size
    /\ Len(table) < next_id - 1
    /\ Len(max_cache) = cache_size
    /\ \E i, j \in 1..Len(table) : i < j /\ table[i].min_size = table[j].min_size

\* a step that is a get_max_box call, a step that is a pop_max_box call
get_call == calls' = calls /\ ret' # ret
pop_call == calls' = calls + 1 /\ added_by_step = {} /\ pc' = pc

\* C35: in every storage variant get_max_box changes no storage state and
\* answers the same when repeated, and a pop_max_box issued directly after a
\* get_max_box returns the rectangle get_max_box returned; in the cached
\* storage both take the head of max_cache when the heads of to_add_cache and
\* max_cache have the same smaller side.
C35_PopReturnsThePeek ==
    [][/\ get_call =>
              /\ UNCHANGED <<boxes, to_add_cache, max_cache, to_delete_cache,
                             table, next_id>>
              /\ pc = "memory" => ret' = (IF Len(boxes) > 0 THEN boxes[1] ELSE None)
              /\ pc = "storage" =>
                     ret' = Hybrid_get_max_box(to_add_cache, max_cache)
       /\ (pop_call /\ pc = "memory") =>
              ret' = (IF Len(boxes) > 0 THEN boxes[1] ELSE None)
       /\ (pop_call /\ pc = "storage") =>
              /\ error' = NoError
              /\ ret' = Hybrid_get_max_box(to_add_cache, max_cache)
              /\ (/\ Len(to_add_cache) > 0
                  /\ Len(max_cache) > 0
                  /\ Min(width(to_add_cache[1]), height(to_add_cache[1]))
                         = Min(width(max_cache[1]), height(max_cache[1]))) =>
                     ret' = max_cache[1]]_vars

\* a step of the partitioned storage that synced with the table
partitioned_refill ==
    pc = "partitioned" /\ (table' # table \/ next_id' # next_id)

\* the sets of rectangles the refill of HybridBoxStorage can leave in
\* max_cache for the table tbl
non_partitioned_refills(tbl) ==
    {Range(update_max_cache(<<>>, rows)) : rows \in select_max_rows(tbl, cache_size)}

\* the partitions whose range holds the smaller side of d
partitions_of(d) ==
    {k \in 1..Len(partition_ranges) :
        /\ at_least(Min(width(d), height(d)), partition_ranges[k][1])
        /\ ~at_least(Min(width(d), height(d)), partition_ranges[k][2])}

\* C36: the refill of max_cache in the partitioned storage, reading
\* partition 1, 2, ... until cache_size rows are accumulated, leaves a set of
\* rectangles the non-partitioned refill can leave for the same table: the
\* min(cache_size, number of rows) rows of largest min_size of the table.
C36_PartitionedRefillIsGlobalTop ==
    [][partitioned_refill =>
           /\ Range(max_cache') \in non_partitioned_refills(table')
           /\ is_top_of(max_cache', Min(cache_size, Len(table')), table')]_vars

\* a refill took its rows from two partitions and left rows in the table
C36_Witness ==
    /\ pc = "partitioned"
    /\ Len(max_cache) = 2
    /\ Len(table) > 2
    /\ partitions_of(max_cache[1]) # partitions_of(max_cache[2])
    /\ partitions_of(max_cache[1]) # {}
    /\ partitions_of(max_cache[2]) # {}

\* the number of sizes drawn from the generator so far
sizes_drawn == denominator - n0

\* C37: when run_algorithm returns, the generator has been advanced at most
\* max_placed times, and not at all when max_placed = 0.
C37_DrawsAtMostQuota ==
    pc = "returned" => sizes_drawn <= max_placed

\* a place_next call has ended, by returning or by raising
place_next_ended == pc = "placed" \/ (pc = "returned" /\ error # NoError)

\* the positions of the placements list that hold a rectangle of type lrp
lrp_positions == {i \in 1..Len(placed_details) : placed_details[i].detail_type = LRP_NAME}

\* the rectangles of the placements list that are not placed details
free_rectangles == {d \in Range(placed_details) : d.detail_type # DETAIL_NAME}

\* C38: with update_placed_details = true, after every place_next call,
\* successful or failed, the placements list holds exactly one rectangle of
\* type lrp, the engine's lrp; it holds the active box when there is one;
\* every rectangle of the box storage is in the list, and every rectangle of
\* the list that is neither a detail, the LRP nor the active box is in the
\* box storage.
C38_ListMatchesEngine ==
    (update_placed_details /\ place_next_ended) =>
        /\ Cardinality(lrp_positions) = 1
        /\ \A i \in lrp_positions : placed_details[i] = lrp
        /\ active_box # None => active_box \in Range(placed_details)
        /\ Range(boxes) \subseteq Range(placed_details)
        /\ free_rectangles \ {lrp, active_box} \subseteq Range(boxes)

\* a call has failed after the active box was retired: the list holds the
\* LRP, a retired endpoint and a normal box, and both of these are stored
C38_Witness ==
    /\ update_placed_details
    /\ pc = "returned"
    /\ error # NoError
    /\ active_box = None
    /\ Cardinality(Range(boxes)) >= 2
    /\ \E d \in Range(boxes) : d.detail_type \in {ENDPOINT_TYPE_1_NAME, ENDPOINT_TYPE_2_NAME}

\* place_next has raised 'LRP too small'
lrp_too_small_raised == pc = "returned" /\ error = LRP_TOO_SMALL

\* the events emitted since place_next was last entered
events_of_call == {events[i] : i \in (at_entry[3] + 1)..Len(events)}

\* the placed details of a placements list
details_in(pd) == {d \in Range(pd) : d.detail_type = DETAIL_NAME}

\* C39: when place_next raises 'LRP too small', the engine's lrp and
\* last_placed_index, the placements list and the set of details placed are
\* as they were when the call was entered, and the call has emitted no
\* after-LRP-cut, after-detail-placed or end event.
C39_FailedCallChangesNothing ==
    lrp_too_small_raised =>
        /\ lrp = at_entry[1]
        /\ last_placed_index = at_entry[2]
        /\ placed_details = last_ok_placed
        /\ details_in(placed_details) = details_in(last_ok_placed)
        /\ \A e \in events_of_call : e.type = BEFORE_LRP_CUT

\* as amended: the lrp is the one of the entry, or, when the engine had none
\* at the entry, the first element of the placements list, which the call
\* has adopted; the rest is unchanged
C39_FailedCallKeepsOrAdoptsLrp ==
    lrp_too_small_raised =>
        /\ lrp = (IF at_entry[1] = None THEN placed_details[1] ELSE at_entry[1])
        /\ last_placed_index = at_entry[2]
        /\ placed_details = last_ok_placed
        /\ details_in(placed_details) = details_in(last_ok_placed)
        /\ \A e \in events_of_call : e.type = BEFORE_LRP_CUT

\* a call other than the first has raised after the before-LRP-cut event
C39_Witness ==
    /\ lrp_too_small_raised
    /\ num_placed >= 1
    /\ at_entry[1] # None
    /\ events_of_call # {}
    /\ details_in(placed_details) # {}

\* the rectangles added and not popped since have all been returned
drained == present = {}

\* C40: in the cached storage, from any state reached by add_box,
\* get_max_box and pop_max_box calls, pop_max_box repeated until it returns
\* none returns every rectangle added and not yet popped exactly once, in
\* non-increasing order of min(width, height), and no rectangle popped and
\* not added again: each pop returns and removes a rectangle of largest
\* smaller side among those added and not yet popped, and none, without
\* raising, once they have all been returned.
C40_DrainReturnsAllInOrder ==
    [][(pop_call /\ pc = "storage") =>
           /\ error' = NoError
           /\ IF drained
              THEN ret' = None
              ELSE /\ ret' \in present
                   /\ Min(width(ret'), height(ret')) = max_min_size(present)
                   /\ present' = present \ {ret'}]_vars
====
